---- MODULE Spec2Model ----
(***************************************************************************)
(* Model of hail_search/queries/mito.py (MitoHailTableQuery): the          *)
(* cross-sample-type merge of family entries (_apply_filters), the quality *)
(* filter with its ClinVar pathogenicity override, and the lazily loaded   *)
(* filter-table cache (_get_loaded_filter_ht).                             *)
(*                                                                         *)
(* Hail's missing value (NA) and Python's None are modelled as the empty   *)
(* tuple, a defined value x as the one-element tuple <<x>>.  Hail arrays   *)
(* are sequences; Hail's 0-based positions are kept as they are and        *)
(* translated on access.                                                   *)
(***************************************************************************)
EXTENDS Integers, Sequences, FiniteSets, TLC

VARIABLES
    pc,                             \* position in _filter_entries_ht_both_sample_types
    sorted_wes_family_sample_data,  \* mito.py:154
    sorted_wgs_family_sample_data,  \* mito.py:155
    family_idx_map,                 \* mito.py:156
    ht,                             \* one row of the outer-joined table, mito.py:160
    merged,                         \* the same row after _apply_filters, mito.py:262-270
    filter_hts,                     \* self._filter_hts, mito.py:378
    clinvar_path_variants,          \* the reference table 'clinvar_path_variants.ht'
    n_get_filters,                  \* evaluations of get_filters so far, mito.py:397
    n_read_table,                   \* reads of the reference table so far, mito.py:401
    n_calls,                        \* operations invoked on the query instance so far
    request,                        \* the quality_filter and pathogenicity of the search
    has_both_sample_types,          \* self._has_both_sample_types, missing while not set
    call                            \* the arguments and results of the last operation

merge_vars == <<sorted_wes_family_sample_data, sorted_wgs_family_sample_data,
                family_idx_map, merged, has_both_sample_types>>
quality_vars == <<filter_hts, clinvar_path_variants, n_get_filters, n_read_table,
                  n_calls, request, call>>
quality_filter_vars == <<filter_hts, clinvar_path_variants, n_get_filters, n_read_table>>
vars == <<pc, ht, merge_vars, quality_vars>>

----------------------------------------------------------------------------
(* Bounds *)

MaxFamilies == 2
MaxVariants == 1
MaxCalls == 2
MaxEnum == 5
MaxRanges == 4
MaxLocus == 3
MaxIntervals == 4
MaxProjects == 2
MaxTranscripts == 3
MaxRank == 2
MaxConsequences == 2

----------------------------------------------------------------------------
(* Missing values *)

Missing == <<>>
Some(x) == <<x>>
IsDefined(o) == o # Missing
Val(o) == o[1]

\* hl.coalesce(o, default)
Coalesce(o, default) == IF IsDefined(o) THEN Val(o) ELSE default

\* hl.or_missing(cond, o): o when cond holds, missing otherwise
OrMissing(cond, o) == IF cond THEN o ELSE Missing

----------------------------------------------------------------------------
(* Constants of hail_search/constants.py *)

SAMPLE_TYPE_WES == "WES"
SAMPLE_TYPE_WGS == "WGS"
SampleTypes == {SAMPLE_TYPE_WES, SAMPLE_TYPE_WGS}
CLINVAR_KEY == "clinvar"
CLINVAR_PATH_FILTER == "pathogenic"
CLINVAR_LIKELY_PATH_FILTER == "likely_pathogenic"
CLINVAR_PATH_SIGNIFICANCES == {CLINVAR_PATH_FILTER, CLINVAR_LIKELY_PATH_FILTER}

----------------------------------------------------------------------------
(* Family sample data *)

FamilyGuids == 1..MaxFamilies

\* The sample descriptors of one family for one sample type
\* ({<family_guid>: [<sample>, ...]} of project_sample_type_data).
NumSamples(f) == IF f % 2 = 0 THEN 2 ELSE 1
FamilySamples(f, t) ==
    [k \in 1..NumSamples(f) |-> [familyGuid |-> f, sampleId |-> <<t, f, k>>]]

RECURSIVE SortedSeq(_)
SortedSeq(S) ==
    IF S = {} THEN <<>>
    ELSE LET m == CHOOSE x \in S : \A y \in S : x <= y
         IN <<m>> \o SortedSeq(S \ {m})

\* _add_entry_sample_families: the family sample data in the fixed, sorted
\* family order the family entries of every row are aligned with.
SortedFamilySampleData(fams, t) ==
    LET order == SortedSeq(fams)
    IN [i \in 1..Len(order) |-> FamilySamples(order[i], t)]

\* enumerate(seq): the 0-based positions of a sequence
Positions(seq) == 0..(Len(seq) - 1)
At(seq, i) == seq[i + 1]

\* _build_family_index_map: {family_guid: {sample_type: family_idx}}
FamiliesOf(data) == {At(data, i)[1].familyGuid : i \in Positions(data)}
\* positions counted from one
BuildFamilyIndexMapFromOne(wes_data, wgs_data) ==
    [g \in FamiliesOf(wes_data) \cup FamiliesOf(wgs_data) |->
        [t \in {s \in SampleTypes :
                  g \in FamiliesOf(IF s = SAMPLE_TYPE_WES THEN wes_data ELSE wgs_data)} |->
            LET data == IF t = SAMPLE_TYPE_WES THEN wes_data ELSE wgs_data
            IN 1 + (CHOOSE i \in Positions(data) : At(data, i)[1].familyGuid = g)]]

BuildFamilyIndexMap(wes_data, wgs_data) ==
    [g \in FamiliesOf(wes_data) \cup FamiliesOf(wgs_data) |->
        [t \in {s \in SampleTypes :
                  g \in FamiliesOf(IF s = SAMPLE_TYPE_WES THEN wes_data ELSE wgs_data)} |->
            LET data == IF t = SAMPLE_TYPE_WES THEN wes_data ELSE wgs_data
            IN CHOOSE i \in Positions(data) :
                 /\ At(data, i)[1].familyGuid = g
                 /\ \A j \in Positions(data) :
                        At(data, j)[1].familyGuid = g => j <= i]]

----------------------------------------------------------------------------
(* The outer-joined row, mito.py:158-160 *)

\* The filters of the two tables' rows: none, the same one, different ones,
\* one of one table only.
FilterPairs == {<<{}, {}>>, <<{"VQSR"}, {"VQSR"}>>, <<{"VQSR"}, {"AC0"}>>, <<{}, {"AC0"}>>}

\* family_entries of one table's row: one element per family of the sorted
\* family sample data, defined at the positions in `present`
FamilyEntries(data, present) ==
    [i \in 1..Len(data) |-> IF (i - 1) \in present THEN Some(data[i]) ELSE Missing]

\* A verdict array (<sample_type>_passes_quality / _passes_inheritance):
\* entries.map(lambda entries: hl.or_missing(<predicate>(entries), entries)),
\* the predicate holding at the positions in `passing`
PassesAnnotation(family_entries, passing) ==
    IF IsDefined(family_entries)
    THEN Some([i \in 1..Len(Val(family_entries)) |->
                 OrMissing((i - 1) \in passing, Val(family_entries)[i])])
    ELSE Missing

DefinedPositions(family_entries) ==
    IF IsDefined(family_entries)
    THEN {i \in Positions(Val(family_entries)) : IsDefined(At(Val(family_entries), i))}
    ELSE {}

----------------------------------------------------------------------------
(* _apply_filters, mito.py:233-271 *)

\* family_idx_map.get(guid, hl.empty_dict(hl.tstr, hl.tint32))
DictGet(map, guid) == IF guid \in DOMAIN map THEN map[guid] ELSE <<>>

\* hl.is_defined(ht.<other>_passes_X[family_idx_map[guid][other_type]]):
\* a key that is not in the dict, or a position outside a defined array, is
\* a runtime error of the query; a position of a missing array is missing
IndexOther(other_passes, map, guid, other_type) ==
    IF guid \notin DOMAIN map \/ other_type \notin DOMAIN DictGet(map, guid)
    THEN [value |-> FALSE, error |-> TRUE]
    ELSE IF ~IsDefined(other_passes)
    THEN [value |-> FALSE, error |-> FALSE]
    ELSE IF map[guid][other_type] \notin Positions(Val(other_passes))
    THEN [value |-> FALSE, error |-> TRUE]
    ELSE [value |-> IsDefined(At(Val(other_passes), map[guid][other_type])),
          error |-> FALSE]

\* Mutant of OtherPasses: a family without an index in the other sample type
\* counts as passed there.
OtherPassesAbsentTrue(other_passes, map, guid, other_type) ==
    IF other_type \in DOMAIN DictGet(map, guid)
    THEN IndexOther(other_passes, map, guid, other_type)
    ELSE [value |-> TRUE, error |-> FALSE]

\* Mutant of OtherPasses: the other sample type's array is indexed without
\* the contains() guard.
OtherPassesUnguarded(other_passes, map, guid, other_type) ==
    IndexOther(other_passes, map, guid, other_type)

\* hl.if_else(family_idx_map.get(guid, {}).contains(other_type),
\*            hl.is_defined(ht.<other>_passes_X[...]), False)
OtherPasses(other_passes, map, guid, other_type) ==
    IF other_type \in DOMAIN DictGet(map, guid)
    THEN IndexOther(other_passes, map, guid, other_type)
    ELSE [value |-> FALSE, error |-> FALSE]

\* Mutant of KeepCondition: quality or inheritance is enough.
KeepConditionEitherFilter(own_q, own_inh, other_q, other_inh, map, other_type, i, x1) ==
    LET guid == Val(x1)[1].familyGuid
        q == OtherPasses(other_q, map, guid, other_type)
        inh == OtherPasses(other_inh, map, guid, other_type)
    IN [value |-> \/ (IsDefined(At(Val(own_q), i)) \/ q.value)
                  \/ (IsDefined(At(Val(own_inh), i)) \/ inh.value),
        error |-> q.error \/ inh.error]

\* Mutant of KeepCondition: both verdicts are taken from the same sample type.
KeepConditionOneSampleType(own_q, own_inh, other_q, other_inh, map, other_type, i, x1) ==
    LET guid == Val(x1)[1].familyGuid
        q == OtherPasses(other_q, map, guid, other_type)
        inh == OtherPasses(other_inh, map, guid, other_type)
    IN [value |-> \/ (IsDefined(At(Val(own_q), i)) /\ IsDefined(At(Val(own_inh), i)))
                  \/ (q.value /\ inh.value),
        error |-> q.error \/ inh.error]

\* The condition of hl.or_missing for the family at position i (x[0]) with
\* entries x1 (x[1]) of one sample type, mito.py:239-247 and 251-259
KeepCondition(own_q, own_inh, other_q, other_inh, map, other_type, i, x1) ==
    LET guid == Val(x1)[1].familyGuid
        q == OtherPasses(other_q, map, guid, other_type)
        inh == OtherPasses(other_inh, map, guid, other_type)
    IN [value |-> /\ (IsDefined(At(Val(own_q), i)) \/ q.value)
                  /\ (IsDefined(At(Val(own_inh), i)) \/ inh.value),
        error |-> q.error \/ inh.error]

\* hl.enumerate(ht[<FAMILY_ENTRIES_FIELD>]).map(lambda x: hl.or_missing(..., x[1]));
\* missing entries stay missing whatever the condition
AdmittedEntries(family_entries, own_q, own_inh, other_q, other_inh, map, other_type) ==
    IF ~IsDefined(family_entries) THEN Missing
    ELSE Some([k \in 1..Len(Val(family_entries)) |->
            LET x1 == Val(family_entries)[k]
            IN IF ~IsDefined(x1) THEN Missing
               ELSE OrMissing(KeepCondition(own_q, own_inh, other_q, other_inh,
                                            map, other_type, k - 1, x1).value, x1)])

AdmissionError(family_entries, own_q, own_inh, other_q, other_inh, map, other_type) ==
    /\ IsDefined(family_entries)
    /\ \E k \in 1..Len(Val(family_entries)) :
         /\ IsDefined(Val(family_entries)[k])
         /\ KeepCondition(own_q, own_inh, other_q, other_inh, map, other_type,
                          k - 1, Val(family_entries)[k]).error

WesAdmitted(h, map) ==
    AdmittedEntries(h.wes_family_entries, h.wes_passes_quality, h.wes_passes_inheritance,
                    h.wgs_passes_quality, h.wgs_passes_inheritance, map, SAMPLE_TYPE_WGS)

\* Mutant of WgsAdmitted: the WGS entries are judged on the WGS verdicts alone.
WgsAdmittedOwnVerdictOnly(h, map) ==
    AdmittedEntries(h.wgs_family_entries, h.wgs_passes_quality, h.wgs_passes_inheritance,
                    Missing, Missing, map, SAMPLE_TYPE_WES)

WgsAdmitted(h, map) ==
    AdmittedEntries(h.wgs_family_entries, h.wgs_passes_quality, h.wgs_passes_inheritance,
                    h.wes_passes_quality, h.wes_passes_inheritance, map, SAMPLE_TYPE_WES)

\* Mutant of ApplyFilters: the WGS entries come first and only the filters
\* common to both sample types are kept.
ApplyFiltersWgsFirst(h, map) ==
    [family_entries |-> Coalesce(WgsAdmitted(h, map), <<>>) \o
                        Coalesce(WesAdmitted(h, map), <<>>),
     filters |-> Coalesce(h.wes_filters, {}) \cap Coalesce(h.wgs_filters, {}),
     error |-> FALSE]

\* ht.transmute(family_entries=..., filters=...), mito.py:262-270
ApplyFilters(h, map) ==
    [family_entries |-> Coalesce(WesAdmitted(h, map), <<>>) \o
                        Coalesce(WgsAdmitted(h, map), <<>>),
     filters |-> Coalesce(h.wes_filters, {}) \cup Coalesce(h.wgs_filters, {}),
     error |-> \/ AdmissionError(h.wes_family_entries, h.wes_passes_quality,
                                 h.wes_passes_inheritance, h.wgs_passes_quality,
                                 h.wgs_passes_inheritance, map, SAMPLE_TYPE_WGS)
               \/ AdmissionError(h.wgs_family_entries, h.wgs_passes_quality,
                                 h.wgs_passes_inheritance, h.wes_passes_quality,
                                 h.wes_passes_inheritance, map, SAMPLE_TYPE_WES)]

----------------------------------------------------------------------------
(* _filter_entries_ht_both_sample_types, one chunk and one row of it *)

NoRow == [key |-> 0, wes_family_entries |-> Missing, wgs_family_entries |-> Missing,
          wes_filters |-> Missing, wgs_filters |-> Missing,
          wes_passes_quality |-> Missing, wgs_passes_quality |-> Missing,
          wes_passes_inheritance |-> Missing, wgs_passes_inheritance |-> Missing]
NoMerged == [family_entries |-> <<>>, filters |-> {}, error |-> FALSE]
NoCall == [op |-> "none", pathogenicity |-> Missing,
           evaluated |-> <<>>, results |-> <<>>, before |-> <<>>]

Init ==
    /\ pc = "start"
    /\ sorted_wes_family_sample_data = <<>>
    /\ sorted_wgs_family_sample_data = <<>>
    /\ family_idx_map = <<>>
    /\ ht = NoRow
    /\ merged = NoMerged
    /\ has_both_sample_types = Some(TRUE)
    /\ filter_hts = <<>>
    /\ clinvar_path_variants = Missing
    /\ n_get_filters = 0
    /\ n_read_table = 0
    /\ n_calls = 0
    /\ request = [quality_filter |-> Missing, pathogenicity |-> Missing]
    /\ call = NoCall

\* mito.py:153-156: both sample types have family sample data
AddEntrySampleFamilies ==
    /\ pc = "start"
    /\ \E wes_fams \in (SUBSET FamilyGuids) \ {{}}, wgs_fams \in (SUBSET FamilyGuids) \ {{}} :
         /\ sorted_wes_family_sample_data' = SortedFamilySampleData(wes_fams, SAMPLE_TYPE_WES)
         /\ sorted_wgs_family_sample_data' = SortedFamilySampleData(wgs_fams, SAMPLE_TYPE_WGS)
         /\ family_idx_map' = BuildFamilyIndexMap(
                SortedFamilySampleData(wes_fams, SAMPLE_TYPE_WES),
                SortedFamilySampleData(wgs_fams, SAMPLE_TYPE_WGS))
    /\ pc' = "bound"
    /\ UNCHANGED <<ht, merged, has_both_sample_types, quality_vars>>

\* mito.py:158-160: a row of wes_ht.join(wgs_ht, how='outer'); the variant is
\* in at least one of the two tables, and the fields of a table that does not
\* hold it are missing
JoinRow ==
    /\ pc = "bound"
    /\ \E in_wes, in_wgs \in BOOLEAN :
         /\ in_wes \/ in_wgs
         /\ \E wes_present \in SUBSET Positions(sorted_wes_family_sample_data) :
            \E wgs_present \in SUBSET Positions(sorted_wgs_family_sample_data) :
            \E filters \in FilterPairs :
              /\ ~in_wes => wes_present = {}
              /\ ~in_wgs => wgs_present = {}
              /\ ht' = [NoRow EXCEPT
                    !.wes_family_entries =
                        OrMissing(in_wes, Some(FamilyEntries(sorted_wes_family_sample_data, wes_present))),
                    !.wgs_family_entries =
                        OrMissing(in_wgs, Some(FamilyEntries(sorted_wgs_family_sample_data, wgs_present))),
                    !.wes_filters = OrMissing(in_wes, Some(filters[1])),
                    !.wgs_filters = OrMissing(in_wgs, Some(filters[2]))]
    /\ pc' = "joined"
    /\ UNCHANGED <<merge_vars, quality_vars>>

\* mito.py:163-197: the four verdict arrays; each element is the family's
\* entries when the predicate holds for them and missing otherwise
AnnotatePasses ==
    /\ pc = "joined"
    /\ \E wes_q \in SUBSET DefinedPositions(ht.wes_family_entries) :
       \E wes_inh \in SUBSET DefinedPositions(ht.wes_family_entries) :
       \E wgs_q \in SUBSET DefinedPositions(ht.wgs_family_entries) :
       \E wgs_inh \in SUBSET DefinedPositions(ht.wgs_family_entries) :
         ht' = [ht EXCEPT
            !.wes_passes_quality = PassesAnnotation(ht.wes_family_entries, wes_q),
            !.wgs_passes_quality = PassesAnnotation(ht.wgs_family_entries, wgs_q),
            !.wes_passes_inheritance = PassesAnnotation(ht.wes_family_entries, wes_inh),
            !.wgs_passes_inheritance = PassesAnnotation(ht.wgs_family_entries, wgs_inh)]
    /\ pc' = "annotated"
    /\ UNCHANGED <<merge_vars, quality_vars>>

\* mito.py:198: ht = self._apply_filters(ht, family_idx_map)
ApplyFiltersStep ==
    /\ pc = "annotated"
    /\ merged' = ApplyFilters(ht, family_idx_map)
    /\ pc' = IF ApplyFilters(ht, family_idx_map).error THEN "error" ELSE "merged"
    /\ UNCHANGED <<sorted_wes_family_sample_data, sorted_wgs_family_sample_data,
                   family_idx_map, ht, has_both_sample_types, quality_vars>>

Next ==
    \/ AddEntrySampleFamilies
    \/ JoinRow
    \/ AnnotatePasses
    \/ ApplyFiltersStep

Spec == Init /\ [][Next]_vars

----------------------------------------------------------------------------
(* The ClinVar pathogenicity prefilter, mito.py:395-421 and 510-514 *)

Variants == 1..MaxVariants

\* The clinvar terms of a request besides the pathogenic significances
ClinvarTerms == CLINVAR_PATH_SIGNIFICANCES \cup {"vus_or_conflicting"}

\* The `pathogenicity` argument: None, or a dict whose clinvar terms are given
Pathogenicities == {Missing} \cup {Some(terms) : terms \in SUBSET ClinvarTerms}

\* The rows of clinvar_path_variants.ht: a variant key and the two flags
ClinvarRows ==
    [key : Variants, is_pathogenic : BOOLEAN, is_likely_pathogenic : BOOLEAN]
ClinvarTables ==
    {rows \in SUBSET {r \in ClinvarRows : r.is_pathogenic \/ r.is_likely_pathogenic} :
        \A r1, r2 \in rows : r1.key = r2.key => r1 = r2}

\* _read_table: the table, or None when there is none to read
ReadTable(table) == table

\* _get_clinvar_path_filters
GetClinvarPathFilters(pathogenicity) ==
    {f \in Coalesce(pathogenicity, {}) : f \in CLINVAR_PATH_SIGNIFICANCES}

\* Mutant of GetClinvarPrefilter: the two row filters are exchanged.
GetClinvarPrefilterExchanged(pathogenicity) ==
    LET clinvar_path_filters == GetClinvarPathFilters(pathogenicity)
    IN IF clinvar_path_filters = {} THEN "False"
       ELSE IF CLINVAR_LIKELY_PATH_FILTER \notin clinvar_path_filters THEN "is_likely_pathogenic"
       ELSE IF CLINVAR_PATH_FILTER \notin clinvar_path_filters THEN "is_pathogenic"
       ELSE "True"

\* _get_clinvar_prefilter: False, True, or the row filter to apply
GetClinvarPrefilter(pathogenicity) ==
    LET clinvar_path_filters == GetClinvarPathFilters(pathogenicity)
    IN IF clinvar_path_filters = {} THEN "False"
       ELSE IF CLINVAR_LIKELY_PATH_FILTER \notin clinvar_path_filters THEN "is_pathogenic"
       ELSE IF CLINVAR_PATH_FILTER \notin clinvar_path_filters THEN "is_likely_pathogenic"
       ELSE "True"

\* ht.filter(ht_filter(ht))
FilterTable(rows, ht_filter) ==
    {r \in rows : IF ht_filter = "is_pathogenic" THEN r.is_pathogenic
                  ELSE r.is_likely_pathogenic}

\* The values held by self._filter_hts and returned by _get_loaded_filter_ht
FalseValue == [kind |-> "False", rows |-> {}]
NoneValue == [kind |-> "None", rows |-> {}]
TableValue(rows) == [kind |-> "Table", rows |-> rows]

\* dict.get(key): None for a key that is not in the dict
DictGetOrNone(dict, key) == IF key \in DOMAIN dict THEN dict[key] ELSE NoneValue
DictSet(dict, key, value) ==
    [k \in DOMAIN dict \cup {key} |-> IF k = key THEN value ELSE dict[k]]

\* _get_loaded_filter_ht(key, table_path, get_filters, **kwargs) with
\* get_filters = _get_clinvar_prefilter and kwargs = {pathogenicity}:
\* the dict afterwards, the value returned, whether get_filters was evaluated
\* and the table read, and whether the call raised (ht.filter on None).
GetLoadedFilterHt(filter_dict, key, table, pathogenicity) ==
    IF DictGetOrNone(filter_dict, key) = NoneValue
    THEN LET ht_filter == GetClinvarPrefilter(pathogenicity)
             read == ReadTable(table)
         IN IF ht_filter = "False"
            THEN [filter_hts |-> DictSet(filter_dict, key, FalseValue), result |-> FalseValue,
                  evaluated |-> <<ht_filter>>, read |-> FALSE, raised |-> FALSE]
            ELSE IF ht_filter # "True" /\ ~IsDefined(read)
            THEN [filter_hts |-> filter_dict, result |-> NoneValue,
                  evaluated |-> <<ht_filter>>, read |-> TRUE, raised |-> TRUE]
            ELSE LET loaded ==
                        IF ~IsDefined(read) THEN NoneValue
                        ELSE IF ht_filter = "True" THEN TableValue(Val(read))
                        ELSE TableValue(FilterTable(Val(read), ht_filter))
                 IN [filter_hts |-> DictSet(filter_dict, key, loaded), result |-> loaded,
                     evaluated |-> <<ht_filter>>, read |-> TRUE, raised |-> FALSE]
    ELSE [filter_hts |-> filter_dict, result |-> filter_dict[key],
          evaluated |-> <<>>, read |-> FALSE, raised |-> FALSE]

\* _get_loaded_clinvar_prefilter_ht
GetLoadedClinvarPrefilterHt(filter_dict, table, pathogenicity) ==
    GetLoadedFilterHt(filter_dict, CLINVAR_KEY, table, pathogenicity)

----------------------------------------------------------------------------
(* The quality filter, mito.py:219-231 and 387-393 *)

\* The quality_filter argument: None, no thresholds, or a depth threshold
QualityFilters == {Missing, Some(<<>>), Some([min_dp |-> 10])}
DPValues == {5, 20}

\* BaseHailTableQuery._get_family_passes_quality_filter: no predicate when no
\* thresholds apply, else every sample of the family meets each threshold
Thresholds(quality_filter) == DOMAIN Coalesce(quality_filter, <<>>)
BasePassesQuality(quality_filter, entries) ==
    \A k \in DOMAIN entries : entries[k].dp >= Val(quality_filter).min_dp

NoPredicate == [kind |-> "None", quality_filter |-> Missing, rows |-> {}]

\* Mutant of GetFamilyPassesQualityFilter: the prefilter table is loaded
\* before looking whether there is a quality predicate at all.
GetFamilyPassesQualityFilterAlwaysLoads(filter_dict, table, quality_filter, pathogenicity) ==
    LET loaded == GetLoadedClinvarPrefilterHt(filter_dict, table, pathogenicity)
    IN IF Thresholds(quality_filter) = {}
       THEN [loaded EXCEPT !.result = NoPredicate]
       ELSE IF loaded.result.kind # "Table"
       THEN [loaded EXCEPT !.result =
                [kind |-> "base", quality_filter |-> quality_filter, rows |-> {}]]
       ELSE [loaded EXCEPT !.result =
                [kind |-> "override", quality_filter |-> quality_filter,
                 rows |-> loaded.result.rows]]

\* _get_family_passes_quality_filter: the predicate returned (none, the base
\* predicate, or the base predicate with the prefilter override) and what
\* _get_loaded_filter_ht did on the way
GetFamilyPassesQualityFilter(filter_dict, table, quality_filter, pathogenicity) ==
    IF Thresholds(quality_filter) = {}
    THEN [filter_hts |-> filter_dict, result |-> NoPredicate,
          evaluated |-> <<>>, read |-> FALSE, raised |-> FALSE]
    ELSE LET loaded == GetLoadedClinvarPrefilterHt(filter_dict, table, pathogenicity)
         IN IF loaded.result.kind # "Table"
            THEN [loaded EXCEPT !.result =
                    [kind |-> "base", quality_filter |-> quality_filter, rows |-> {}]]
            ELSE [loaded EXCEPT !.result =
                    [kind |-> "override", quality_filter |-> quality_filter,
                     rows |-> loaded.result.rows]]

\* Mutant of PassesQualityFilter: a variant in the prefilter table must pass
\* the base predicate as well.
PassesQualityFilterBoth(predicate, key, entries) ==
    IF predicate.kind = "base" THEN BasePassesQuality(predicate.quality_filter, entries)
    ELSE /\ \E r \in predicate.rows : r.key = key
         /\ BasePassesQuality(predicate.quality_filter, entries)

\* The predicate applied to the entries of one family in the row with `key`:
\* passes_quality(entries), or
\* hl.is_defined(clinvar_path_ht[ht.key]) | passes_quality(entries)
PassesQualityFilter(predicate, key, entries) ==
    IF predicate.kind = "base" THEN BasePassesQuality(predicate.quality_filter, entries)
    ELSE \/ \E r \in predicate.rows : r.key = key
         \/ BasePassesQuality(predicate.quality_filter, entries)

\* ht[<FAMILY_ENTRIES_FIELD>] when there is no predicate, else
\* .map(lambda entries: hl.or_missing(predicate(entries), entries))
PassesQualityAnnotation(predicate, key, family_entries) ==
    IF predicate.kind = "None" \/ ~IsDefined(family_entries) THEN family_entries
    ELSE Some([i \in 1..Len(Val(family_entries)) |->
            LET entries == Val(family_entries)[i]
            IN IF ~IsDefined(entries) THEN Missing
               ELSE OrMissing(PassesQualityFilter(predicate, key, Val(entries)), entries)])

\* _annotate_passes_quality_filter(ht, quality_filter, pathogenicity=...):
\* the predicate of WES, the wes_passes_quality annotation, then the same
\* for WGS; a raise in either call ends the handler
AnnotatePassesQualityFilter(filter_dict, table, h, quality_filter, pathogenicity) ==
    LET wes == GetFamilyPassesQualityFilter(filter_dict, table, quality_filter, pathogenicity)
        wgs == GetFamilyPassesQualityFilter(wes.filter_hts, table, quality_filter, pathogenicity)
    IN IF wes.raised
       THEN [ht |-> h, filter_hts |-> wes.filter_hts, predicates |-> <<>>,
             evaluated |-> wes.evaluated, reads |-> IF wes.read THEN 1 ELSE 0,
             raised |-> TRUE]
       ELSE [ht |-> [h EXCEPT
                !.wes_passes_quality =
                    PassesQualityAnnotation(wes.result, h.key, h.wes_family_entries),
                !.wgs_passes_quality =
                    IF wgs.raised THEN Missing
                    ELSE PassesQualityAnnotation(wgs.result, h.key, h.wgs_family_entries)],
             filter_hts |-> wgs.filter_hts,
             predicates |-> IF wgs.raised THEN <<wes.result>> ELSE <<wes.result, wgs.result>>,
             evaluated |-> wes.evaluated \o wgs.evaluated,
             reads |-> (IF wes.read THEN 1 ELSE 0) + (IF wgs.read THEN 1 ELSE 0),
             raised |-> wgs.raised]

----------------------------------------------------------------------------
(* One query instance and the operations invoked on it *)

\* the samples of a family with their depths
WithDP(samples, dps) ==
    [k \in DOMAIN samples |->
        [familyGuid |-> samples[k].familyGuid, sampleId |-> samples[k].sampleId,
         dp |-> dps[k]]]

\* the family_entries of one sample type in a row: missing (the variant is
\* not in that table), or one family whose entries are missing or defined
QualityFamilyEntries(samples) ==
    {Missing, Some(<<Missing>>)} \cup
    {Some(<<Some(WithDP(samples, dps))>>) : dps \in [DOMAIN samples -> DPValues]}

\* The request of a query: the quality_filter and pathogenicity passed on,
\* unchanged, to every handler (**kwargs)
Requests == [quality_filter : QualityFilters, pathogenicity : Pathogenicities]
NoRequest == [quality_filter |-> Missing, pathogenicity |-> Missing]

UnusedByQuality ==
    /\ sorted_wes_family_sample_data = <<>>
    /\ sorted_wgs_family_sample_data = <<>>
    /\ family_idx_map = <<>>
    /\ merged = NoMerged
    /\ has_both_sample_types = Missing

\* __init__ (mito.py:377-379): an empty self._filter_hts; the request and
\* the reference table the query will find are given
QualityInit ==
    /\ pc = "query"
    /\ ht = NoRow
    /\ UnusedByQuality
    /\ filter_hts = <<>>
    /\ clinvar_path_variants \in {Missing} \cup {Some(rows) : rows \in ClinvarTables}
    /\ request \in Requests
    /\ n_get_filters = 0
    /\ n_read_table = 0
    /\ n_calls = 0
    /\ call = NoCall

\* self._annotate_passes_quality_filter(ht, quality_filter, **kwargs) on one
\* row of the joined table, mito.py:163
CallAnnotatePassesQualityFilter ==
    /\ pc = "query"
    /\ n_calls < MaxCalls
    /\ \E key \in Variants,
          wes_family_entries \in QualityFamilyEntries(FamilySamples(2, SAMPLE_TYPE_WES)),
          wgs_family_entries \in QualityFamilyEntries(FamilySamples(1, SAMPLE_TYPE_WGS)) :
         /\ IsDefined(wes_family_entries) \/ IsDefined(wgs_family_entries)
         /\ LET row == [NoRow EXCEPT
                          !.key = key,
                          !.wes_family_entries = wes_family_entries,
                          !.wgs_family_entries = wgs_family_entries,
                          !.wes_filters = OrMissing(IsDefined(wes_family_entries), Some({})),
                          !.wgs_filters = OrMissing(IsDefined(wgs_family_entries), Some({}))]
                r == AnnotatePassesQualityFilter(filter_hts, clinvar_path_variants, row,
                                                 request.quality_filter, request.pathogenicity)
            IN /\ ht' = r.ht
               /\ filter_hts' = r.filter_hts
               /\ n_get_filters' = n_get_filters + Len(r.evaluated)
               /\ n_read_table' = n_read_table + r.reads
               /\ call' = [op |-> "annotate_passes_quality_filter",
                           pathogenicity |-> request.pathogenicity,
                           evaluated |-> r.evaluated, results |-> r.predicates,
                           before |-> filter_hts]
               /\ pc' = IF r.raised THEN "raised" ELSE "returned"
    /\ n_calls' = n_calls + 1
    /\ UNCHANGED <<clinvar_path_variants, request, merge_vars>>

\* the handler has returned; the next row is annotated by a new invocation
Return ==
    /\ pc = "returned"
    /\ pc' = "query"
    /\ ht' = NoRow
    /\ call' = NoCall
    /\ UNCHANGED <<filter_hts, clinvar_path_variants, request, n_get_filters,
                   n_read_table, n_calls, merge_vars>>

QualityNext ==
    \/ CallAnnotatePassesQualityFilter
    \/ Return

SpecQuality == QualityInit /\ [][QualityNext]_vars

----------------------------------------------------------------------------
(* One query instance and direct calls of _get_loaded_filter_ht on it *)

CacheInit ==
    /\ pc = "query"
    /\ ht = NoRow
    /\ UnusedByQuality
    /\ filter_hts = <<>>
    /\ clinvar_path_variants \in {Missing} \cup {Some(rows) : rows \in ClinvarTables}
    /\ request = NoRequest
    /\ n_get_filters = 0
    /\ n_read_table = 0
    /\ n_calls = 0
    /\ call = NoCall

\* self._get_loaded_clinvar_prefilter_ht(pathogenicity), mito.py:408-410
CallGetLoadedFilterHt ==
    /\ pc = "query"
    /\ n_calls < MaxCalls
    /\ \E pathogenicity \in Pathogenicities :
         LET r == GetLoadedClinvarPrefilterHt(filter_hts, clinvar_path_variants, pathogenicity)
         IN /\ filter_hts' = r.filter_hts
            /\ n_get_filters' = n_get_filters + Len(r.evaluated)
            /\ n_read_table' = n_read_table + (IF r.read THEN 1 ELSE 0)
            /\ call' = [op |-> "get_loaded_filter_ht", pathogenicity |-> pathogenicity,
                        evaluated |-> r.evaluated,
                        results |-> IF r.raised THEN <<>> ELSE <<r.result>>,
                        before |-> filter_hts]
            /\ pc' = IF r.raised THEN "raised" ELSE "returned"
    /\ n_calls' = n_calls + 1
    /\ UNCHANGED <<ht, clinvar_path_variants, request, merge_vars>>

CacheNext ==
    \/ CallGetLoadedFilterHt
    \/ Return

SpecCache == CacheInit /\ [][CacheNext]_vars

----------------------------------------------------------------------------
(* Vocabulary of the properties of the merge, read off the state: the      *)
(* family at a position is found through the sorted family sample data.    *)

Other(t) == IF t = SAMPLE_TYPE_WES THEN SAMPLE_TYPE_WGS ELSE SAMPLE_TYPE_WES
Data(t) == IF t = SAMPLE_TYPE_WES THEN sorted_wes_family_sample_data
           ELSE sorted_wgs_family_sample_data
EntriesField(t) == IF t = SAMPLE_TYPE_WES THEN ht.wes_family_entries ELSE ht.wgs_family_entries
QualityField(t) == IF t = SAMPLE_TYPE_WES THEN ht.wes_passes_quality ELSE ht.wgs_passes_quality
InheritanceField(t) == IF t = SAMPLE_TYPE_WES THEN ht.wes_passes_inheritance
                       ELSE ht.wgs_passes_inheritance
FiltersField(t) == IF t = SAMPLE_TYPE_WES THEN ht.wes_filters ELSE ht.wgs_filters

GuidAt(t, i) == At(Data(t), i)[1].familyGuid
InTable(g, t) == \E i \in Positions(Data(t)) : GuidAt(t, i) = g
PosOf(g, t) == CHOOSE i \in Positions(Data(t)) : GuidAt(t, i) = g
ElemAt(field, i) == IF IsDefined(field) THEN At(Val(field), i) ELSE Missing
ArrayLen(field) == IF IsDefined(field) THEN Len(Val(field)) ELSE 0

\* the family's entries, and its verdicts, in the row of sample type t
RowEntries(g, t) == IF InTable(g, t) THEN ElemAt(EntriesField(t), PosOf(g, t)) ELSE Missing
PassesQuality(g, t) == InTable(g, t) /\ IsDefined(ElemAt(QualityField(t), PosOf(g, t)))
PassesInheritance(g, t) == InTable(g, t) /\ IsDefined(ElemAt(InheritanceField(t), PosOf(g, t)))

\* the element of the merged family_entries that stands for the family's
\* entries of sample type t
Offset(t) == IF t = SAMPLE_TYPE_WES THEN 0 ELSE ArrayLen(ht.wes_family_entries)
MergedSlot(g, t) ==
    IF InTable(g, t) /\ IsDefined(EntriesField(t))
    THEN merged.family_entries[Offset(t) + PosOf(g, t) + 1]
    ELSE Missing
Kept(g, t) == IsDefined(MergedSlot(g, t))

\* the defined elements of the merged family_entries that hold family g
MergedPositionsOf(g) ==
    {k \in 1..Len(merged.family_entries) :
        /\ IsDefined(merged.family_entries[k])
        /\ Val(merged.family_entries[k])[1].familyGuid = g}

----------------------------------------------------------------------------
(* C1, as stated: a family's entries of one sample type are kept only if   *)
(* that sample type passed both quality and inheritance for the family, or *)
(* the other sample type passed both.  The code keeps a family on a        *)
(* quality pass of one sample type and an inheritance pass of the other.   *)
C1_KeptOnlyOnOneProtocolsVerdict ==
    pc = "merged" =>
        \A g \in FamilyGuids, t \in SampleTypes :
            Kept(g, t) =>
                \/ PassesQuality(g, t) /\ PassesInheritance(g, t)
                \/ PassesQuality(g, Other(t)) /\ PassesInheritance(g, Other(t))

(* C1, amended: a family's entries of one sample type are kept only if     *)
(* that sample type passed both quality and inheritance, or the family is  *)
(* also in the other sample type's table and each of quality and           *)
(* inheritance passed in at least one of the two sample types.             *)
C1_KeptOnlyIfEachFilterPassesSomewhere ==
    pc = "merged" =>
        \A g \in FamilyGuids, t \in SampleTypes :
            Kept(g, t) =>
                \/ PassesQuality(g, t) /\ PassesInheritance(g, t)
                \/ /\ InTable(g, Other(t))
                   /\ PassesQuality(g, t) \/ PassesQuality(g, Other(t))
                   /\ PassesInheritance(g, t) \/ PassesInheritance(g, Other(t))

\* a family kept on its own quality pass and the other sample type's
\* inheritance pass
C1_Witness ==
    /\ pc = "merged"
    /\ \E g \in FamilyGuids, t \in SampleTypes :
         /\ Kept(g, t)
         /\ PassesQuality(g, t) /\ ~PassesInheritance(g, t)
         /\ ~PassesQuality(g, Other(t)) /\ PassesInheritance(g, Other(t))

(* C2: for a family in exactly one sample type's table, the merged row     *)
(* holds that sample type's own result for the family: when the sample     *)
(* type passed quality and inheritance, the family's entries of the row,   *)
(* the same records in the same order, exactly once; otherwise no entries  *)
(* of the family at all.                                                   *)
C2_SingleProtocolFamilyVerbatim ==
    pc = "merged" =>
        \A g \in FamilyGuids, t \in SampleTypes :
            InTable(g, t) /\ ~InTable(g, Other(t)) =>
                IF PassesQuality(g, t) /\ PassesInheritance(g, t)
                THEN /\ MergedSlot(g, t) = RowEntries(g, t)
                     /\ Val(MergedSlot(g, t)) = FamilySamples(g, t)
                     /\ Cardinality(MergedPositionsOf(g)) = 1
                ELSE MergedPositionsOf(g) = {}

\* a family of one table only is kept, and another such family of the same
\* row is not, next to entries of the other sample type
C2_Witness ==
    /\ pc = "merged"
    /\ \E g \in FamilyGuids, t \in SampleTypes :
         /\ InTable(g, t) /\ ~InTable(g, Other(t))
         /\ Kept(g, t)
         /\ \E k \in 1..Len(merged.family_entries) :
              /\ IsDefined(merged.family_entries[k])
              /\ Val(merged.family_entries[k])[1].familyGuid # g

\* the row and the family index map with the two sample types exchanged
SwapRow(h) ==
    [wes_family_entries |-> h.wgs_family_entries, wgs_family_entries |-> h.wes_family_entries,
     wes_filters |-> h.wgs_filters, wgs_filters |-> h.wes_filters,
     wes_passes_quality |-> h.wgs_passes_quality, wgs_passes_quality |-> h.wes_passes_quality,
     wes_passes_inheritance |-> h.wgs_passes_inheritance,
     wgs_passes_inheritance |-> h.wes_passes_inheritance]
SwapMap(map) ==
    [g \in DOMAIN map |-> [t \in {Other(s) : s \in DOMAIN map[g]} |-> map[g][Other(t)]]]
\* in the merge `sw` of the exchanged row, the element that stands for the
\* family's entries of (the original) sample type t
SwappedSlot(sw, g, t) ==
    LET offset == IF t = SAMPLE_TYPE_WGS THEN 0 ELSE ArrayLen(ht.wgs_family_entries)
    IN IF IsDefined(EntriesField(t))
       THEN sw.family_entries[offset + PosOf(g, t) + 1]
       ELSE Missing

(* C3: for a family in both tables, exchanging the WES and WGS tables,     *)
(* verdict arrays and branches of the family index map leaves what is kept *)
(* of the family unchanged, and on a row with entries of the family in     *)
(* both sample types the WES entries are kept iff the WGS entries are.     *)
C3_AdmissionCommutes ==
    pc = "merged" =>
        LET sw == ApplyFilters(SwapRow(ht), SwapMap(family_idx_map)) IN
        \A g \in FamilyGuids :
            InTable(g, SAMPLE_TYPE_WES) /\ InTable(g, SAMPLE_TYPE_WGS) =>
                /\ \A t \in SampleTypes : MergedSlot(g, t) = SwappedSlot(sw, g, t)
                /\ (IsDefined(RowEntries(g, SAMPLE_TYPE_WES)) /\
                    IsDefined(RowEntries(g, SAMPLE_TYPE_WGS)))
                      => (Kept(g, SAMPLE_TYPE_WES) <=> Kept(g, SAMPLE_TYPE_WGS))

\* a family at different positions of the two tables, kept in both sample
\* types on the WES verdicts alone
C3_Witness ==
    /\ pc = "merged"
    /\ \E g \in FamilyGuids :
         /\ InTable(g, SAMPLE_TYPE_WES) /\ InTable(g, SAMPLE_TYPE_WGS)
         /\ PosOf(g, SAMPLE_TYPE_WES) # PosOf(g, SAMPLE_TYPE_WGS)
         /\ IsDefined(RowEntries(g, SAMPLE_TYPE_WGS))
         /\ PassesQuality(g, SAMPLE_TYPE_WES) /\ PassesInheritance(g, SAMPLE_TYPE_WES)
         /\ ~PassesQuality(g, SAMPLE_TYPE_WGS) /\ ~PassesInheritance(g, SAMPLE_TYPE_WGS)
         /\ Kept(g, SAMPLE_TYPE_WES) /\ Kept(g, SAMPLE_TYPE_WGS)

(* C4: for a family without an index in the other sample type's branch of  *)
(* the family index map, the other sample type's quality and inheritance   *)
(* lookups are false and index nothing (no lookup error), and the family's *)
(* entries are kept iff its own quality and inheritance verdicts are both  *)
(* defined.                                                                *)
C4_AbsentOtherProtocolIsNotAPass ==
    pc \in {"merged", "error"} =>
        /\ ~merged.error
        /\ \A g \in FamilyGuids, t \in SampleTypes :
             InTable(g, t) /\ ~InTable(g, Other(t)) =>
                /\ Other(t) \notin DOMAIN DictGet(family_idx_map, g)
                /\ OtherPasses(QualityField(Other(t)), family_idx_map, g, Other(t))
                     = [value |-> FALSE, error |-> FALSE]
                /\ OtherPasses(InheritanceField(Other(t)), family_idx_map, g, Other(t))
                     = [value |-> FALSE, error |-> FALSE]
                /\ Kept(g, t) <=> (PassesQuality(g, t) /\ PassesInheritance(g, t))

\* a family of one table only fails quality and is dropped although every
\* family of the other sample type passed both filters
C4_Witness ==
    /\ pc = "merged"
    /\ \E g \in FamilyGuids, t \in SampleTypes :
         /\ InTable(g, t) /\ ~InTable(g, Other(t))
         /\ IsDefined(RowEntries(g, t))
         /\ ~PassesQuality(g, t) /\ PassesInheritance(g, t)
         /\ ~Kept(g, t)
         /\ IsDefined(EntriesField(Other(t)))
         /\ \A o \in FamilyGuids :
              InTable(o, Other(t)) =>
                 PassesQuality(o, Other(t)) /\ PassesInheritance(o, Other(t))

\* the family entries of sample type t that the either-passes rule admits,
\* an empty sequence when the row has no entries of that sample type
AdmittedOf(t) ==
    [k \in 1..ArrayLen(EntriesField(t)) |->
        LET g == GuidAt(t, k - 1)
        IN OrMissing(/\ PassesQuality(g, t) \/ PassesQuality(g, Other(t))
                     /\ PassesInheritance(g, t) \/ PassesInheritance(g, Other(t)),
                     Val(EntriesField(t))[k])]
FiltersOf(t) == IF IsDefined(FiltersField(t)) THEN Val(FiltersField(t)) ELSE {}

(* C5: the merged family_entries is the admitted WES entries followed by   *)
(* the admitted WGS entries and the merged filters the union of the two    *)
(* filter sets; a sample type whose table lacks the variant contributes an *)
(* empty sequence and an empty set.                                        *)
C5_MergedIsWesThenWgs ==
    pc = "merged" =>
        /\ merged.family_entries = AdmittedOf(SAMPLE_TYPE_WES) \o AdmittedOf(SAMPLE_TYPE_WGS)
        /\ merged.filters = FiltersOf(SAMPLE_TYPE_WES) \cup FiltersOf(SAMPLE_TYPE_WGS)
        /\ \A t \in SampleTypes :
             ~IsDefined(EntriesField(t)) =>
                /\ merged.family_entries = AdmittedOf(Other(t))
                /\ merged.filters = FiltersOf(Other(t))

\* a variant of the WGS table only, with a family kept and a filter set
C5_Witness ==
    /\ pc = "merged"
    /\ ~IsDefined(ht.wes_family_entries)
    /\ IsDefined(ht.wgs_family_entries)
    /\ merged.filters # {}
    /\ \E k \in 1..Len(merged.family_entries) : IsDefined(merged.family_entries[k])

\* a variant of both tables with entries kept from both and different filters
C5_WitnessBoth ==
    /\ pc = "merged"
    /\ \E g \in FamilyGuids : Kept(g, SAMPLE_TYPE_WES)
    /\ \E g \in FamilyGuids : Kept(g, SAMPLE_TYPE_WGS)
    /\ FiltersOf(SAMPLE_TYPE_WES) # FiltersOf(SAMPLE_TYPE_WGS)
    /\ FiltersOf(SAMPLE_TYPE_WES) # {} /\ FiltersOf(SAMPLE_TYPE_WGS) # {}

----------------------------------------------------------------------------
(* Vocabulary of the properties of the quality filter *)

Annotated == pc = "returned" /\ call.op = "annotate_passes_quality_filter"
HasThresholds == Thresholds(request.quality_filter) # {}
LoadedTable == CLINVAR_KEY \in DOMAIN filter_hts /\ filter_hts[CLINVAR_KEY].kind = "Table"
InPrefilter(key) == \E r \in filter_hts[CLINVAR_KEY].rows : r.key = key
EverySampleMeets(entries) == \A k \in DOMAIN entries : entries[k].dp >= 10
NoSampleMeets(entries) == \A k \in DOMAIN entries : entries[k].dp < 10

(* C6: with a quality predicate and the prefilter table loaded, a family's *)
(* entries pass quality iff the variant's key is in the prefilter table or *)
(* the base predicate holds for them.                                      *)
C6_PrefilterOverrideIsOr ==
    (Annotated /\ HasThresholds /\ LoadedTable) =>
        /\ \A k \in DOMAIN call.results :
             /\ call.results[k].kind = "override"
             /\ call.results[k].rows = filter_hts[CLINVAR_KEY].rows
        /\ \A t \in SampleTypes : \A i \in DefinedPositions(EntriesField(t)) :
             IsDefined(ElemAt(QualityField(t), i))
                <=> (InPrefilter(ht.key) \/ EverySampleMeets(Val(ElemAt(EntriesField(t), i))))

\* a variant of the prefilter table passes for a family none of whose
\* samples meets the threshold
C6_Witness ==
    /\ Annotated /\ HasThresholds /\ LoadedTable
    /\ InPrefilter(ht.key)
    /\ \E t \in SampleTypes : \E i \in DefinedPositions(EntriesField(t)) :
         /\ Len(Val(ElemAt(EntriesField(t), i))) > 1
         /\ NoSampleMeets(Val(ElemAt(EntriesField(t), i)))
         /\ IsDefined(ElemAt(QualityField(t), i))

(* C7: without thresholds _get_family_passes_quality_filter returns no     *)
(* predicate and neither loads nor consults the prefilter table (the       *)
(* filter-table dict, the evaluations of get_filters and the table reads   *)
(* stay as they were), and each sample type's passes-quality annotation is *)
(* its family entries unchanged.                                           *)
C7_NoThresholdsNoPrefilter ==
    [][(pc = "query" /\ pc' # "query" /\ ~HasThresholds) =>
          /\ pc' = "returned"
          /\ call'.results = <<NoPredicate, NoPredicate>>
          /\ filter_hts' = filter_hts
          /\ n_get_filters' = n_get_filters
          /\ n_read_table' = n_read_table
          /\ ht'.wes_passes_quality = ht'.wes_family_entries
          /\ ht'.wgs_passes_quality = ht'.wgs_family_entries]_vars

\* no thresholds, pathogenic terms requested and the variant in the
\* reference table: nothing is loaded and every family passes
C7_Witness ==
    /\ Annotated /\ ~HasThresholds
    /\ IsDefined(request.quality_filter)
    /\ GetClinvarPathFilters(request.pathogenicity) # {}
    /\ IsDefined(clinvar_path_variants)
    /\ \E r \in Val(clinvar_path_variants) : r.key = ht.key
    /\ filter_hts = <<>>
    /\ \A t \in SampleTypes :
         /\ DefinedPositions(EntriesField(t)) # {}
         /\ QualityField(t) = EntriesField(t)

(* C8, as stated: on one query instance get_filters is evaluated at most   *)
(* once and the reference table is read at most once for a key, whatever   *)
(* the later calls pass.  A read that finds no table stores None, which    *)
(* the next call takes for not loaded yet.                                 *)
C8_LoadedAtMostOnce ==
    n_get_filters <= 1 /\ n_read_table <= 1

(* C9, as stated: with pathogenic terms requested and no reference table   *)
(* to read, building the quality filter does not fail and returns the base *)
(* quality predicate unchanged, for each of the filter shapes.             *)
C9_AbsentTableDegrades ==
    (/\ call.op = "annotate_passes_quality_filter"
     /\ HasThresholds
     /\ GetClinvarPathFilters(request.pathogenicity) # {}
     /\ ~IsDefined(clinvar_path_variants)) =>
        /\ pc # "raised"
        /\ \A k \in DOMAIN call.results :
             call.results[k] = [kind |-> "base", quality_filter |-> request.quality_filter,
                                rows |-> {}]

\* what C10 expects of the requested clinvar terms
ExpectedPrefilter(terms) ==
    LET requested == terms \cap {"pathogenic", "likely_pathogenic"}
    IN IF requested = {} THEN "False"
       ELSE IF requested = {"pathogenic", "likely_pathogenic"} THEN "True"
       ELSE IF requested = {"pathogenic"} THEN "is_pathogenic"
       ELSE "is_likely_pathogenic"
ExpectedLoaded(terms, rows) ==
    LET expected == ExpectedPrefilter(terms)
    IN IF expected = "False" THEN FalseValue
       ELSE IF expected = "True" THEN TableValue(rows)
       ELSE IF expected = "is_pathogenic" THEN TableValue({r \in rows : r.is_pathogenic})
       ELSE TableValue({r \in rows : r.is_likely_pathogenic})

(* C10: the prefilter of the requested clinvar terms is false when no      *)
(* pathogenic significance is requested, true (the whole table) when both  *)
(* are, the rows flagged is_pathogenic when only pathogenic is, and the    *)
(* rows flagged is_likely_pathogenic when only likely_pathogenic is; other *)
(* terms change nothing.                                                   *)
C10_ClinvarPrefilterMapping ==
    (call.op = "get_loaded_filter_ht" /\ call.evaluated # <<>>) =>
        LET terms == Coalesce(call.pathogenicity, {})
        IN /\ call.evaluated = <<ExpectedPrefilter(terms)>>
           /\ GetClinvarPrefilter(call.pathogenicity)
                = GetClinvarPrefilter(Some(terms \ {"vus_or_conflicting"}))
           /\ (pc = "returned" /\ IsDefined(clinvar_path_variants)) =>
                 call.results = <<ExpectedLoaded(terms, Val(clinvar_path_variants))>>

\* only pathogenic requested, next to a term that is no pathogenic
\* significance: a likely pathogenic row of the table is left out
C10_Witness ==
    /\ pc = "returned"
    /\ call.op = "get_loaded_filter_ht"
    /\ call.pathogenicity = Some({"pathogenic", "vus_or_conflicting"})
    /\ IsDefined(clinvar_path_variants)
    /\ \E r \in Val(clinvar_path_variants) : ~r.is_pathogenic
    /\ call.results = <<TableValue({r \in Val(clinvar_path_variants) : r.is_pathogenic})>>
    /\ call.results # <<TableValue(Val(clinvar_path_variants))>>

----------------------------------------------------------------------------
(* Operations on their arguments alone: `request` holds the arguments,     *)
(* `call` the operation and what it returned; all other state is unused.   *)

UnusedByFunctions ==
    /\ ht = NoRow
    /\ UnusedByQuality
    /\ filter_hts = <<>>
    /\ clinvar_path_variants = Missing
    /\ n_get_filters = 0
    /\ n_read_table = 0
    /\ n_calls = 0

unused_by_functions == <<ht, merge_vars, filter_hts, clinvar_path_variants,
                         n_get_filters, n_read_table, n_calls>>

----------------------------------------------------------------------------
(* _has_path_expr, mito.py:516-532 *)

\* the values of the pathogenicity enum, in the order of their ids
PathogenicityEnum ==
    <<"Pathogenic", "Pathogenic/Likely_pathogenic", "Likely_pathogenic",
      "Conflicting_interpretations_of_pathogenicity", "Likely_benign", "Benign",
      "No_pathogenic_assertion">>
EnumValues == SubSeq(PathogenicityEnum, 1, MaxEnum)
EnumIds == 0..(MaxEnum - 1)

\* self._get_enum_lookup(field_name, subfield): enum value -> id
EnumLookup(enum_values) ==
    [name \in {enum_values[k] : k \in DOMAIN enum_values} |->
        (CHOOSE k \in DOMAIN enum_values : enum_values[k] = name) - 1]

\* the filters of the range configuration, in its order
PathFilterNames ==
    <<"pathogenic", "likely_pathogenic", "vus_or_conflicting", "likely_benign", "benign">>

\* a range configuration over ids: (path_filter, start, end) with end None
\* for a range that is open at the end
RangeConfigOf(idranges) ==
    [i \in DOMAIN idranges |->
        [path_filter |-> PathFilterNames[i],
         start |-> EnumValues[idranges[i][1] + 1],
         end |-> IF IsDefined(idranges[i][2])
                 THEN Some(EnumValues[Val(idranges[i][2]) + 1]) ELSE Missing]]

EndId(e) == IF IsDefined(e) THEN Val(e) ELSE MaxEnum

\* ordered by severity: starts and ends increase along the configuration,
\* only the last range may be open, and only neighbours may overlap
OrderedIdRanges(idranges) ==
    LET n == Len(idranges)
    IN /\ \A i \in 1..n : idranges[i][1] <= EndId(idranges[i][2])
       /\ \A i \in 1..(n - 1) :
            /\ IsDefined(idranges[i][2])
            /\ idranges[i][1] < idranges[i + 1][1]
            /\ EndId(idranges[i][2]) < EndId(idranges[i + 1][2])
       /\ \A i \in 1..(n - 2) : EndId(idranges[i][2]) < idranges[i + 2][1]

\* the id ranges with the given starts and ends, in increasing order; an end
\* past the last id stands for an open range
IdRangesOf(starts, ends) ==
    [i \in 1..Cardinality(starts) |->
        <<SortedSeq(starts)[i],
          IF SortedSeq(ends)[i] = MaxEnum THEN Missing ELSE Some(SortedSeq(ends)[i])>>]

RangeConfigs ==
    {RangeConfigOf(IdRangesOf(p[1], p[2])) :
        p \in {q \in (SUBSET EnumIds) \X (SUBSET (0..MaxEnum)) :
                 /\ Cardinality(q[1]) = Cardinality(q[2])
                 /\ Cardinality(q[1]) \in 1..MaxRanges
                 /\ OrderedIdRanges(IdRangesOf(q[1], q[2]))}}

PathTerms == SUBSET {PathFilterNames[i] : i \in 1..MaxRanges}

NoRange == <<Missing, Missing>>

\* the loop of mito.py:521-528 from range_configs[i] on
RECURSIVE WalkRangeConfigs(_, _, _, _, _)
WalkRangeConfigs(range_configs, enum_lookup, terms, i, ranges) ==
    IF i > Len(range_configs) THEN ranges
    ELSE LET c == range_configs[i]
             last == ranges[Len(ranges)]
         IN IF c.path_filter \in terms
            THEN LET hi == IF ~IsDefined(c.end) THEN Some(Cardinality(DOMAIN enum_lookup))
                           ELSE Some(enum_lookup[Val(c.end)])
                     lo == IF ~IsDefined(last[1]) THEN Some(enum_lookup[c.start])
                           ELSE last[1]
                 IN WalkRangeConfigs(range_configs, enum_lookup, terms, i + 1,
                                     [ranges EXCEPT ![Len(ranges)] = <<lo, hi>>])
            ELSE IF last # NoRange
            THEN WalkRangeConfigs(range_configs, enum_lookup, terms, i + 1,
                                  Append(ranges, NoRange))
            ELSE WalkRangeConfigs(range_configs, enum_lookup, terms, i + 1, ranges)

\* ranges = [r for r in ranges if r[0] is not None], as pairs of ids
DefinedRanges(ranges) ==
    LET kept == SelectSeq(ranges, LAMBDA r : IsDefined(r[1]))
    IN [k \in DOMAIN kept |-> <<Val(kept[k][1]), Val(kept[k][2])>>]

\* hl.any(lambda r: (value >= r[0]) & (value <= r[1]), ranges): false over
\* no ranges, missing for a variant without a pathogenicity id
AnyRange(ranges, value) ==
    IF ranges = <<>> THEN Some(FALSE)
    ELSE IF ~IsDefined(value) THEN Missing
    ELSE Some(\E k \in DOMAIN ranges : Val(value) >= ranges[k][1] /\ Val(value) <= ranges[k][2])

\* one range from the first requested start to the last requested end
HasPathExprOneRange(range_configs, enum_values, terms, value) ==
    LET enum_lookup == EnumLookup(enum_values)
        requested == {i \in DOMAIN range_configs : range_configs[i].path_filter \in terms}
        first == CHOOSE i \in requested : \A j \in requested : i <= j
        last == CHOOSE i \in requested : \A j \in requested : i >= j
        ranges == IF requested = {} THEN <<>>
                  ELSE <<<<enum_lookup[range_configs[first].start],
                           IF IsDefined(range_configs[last].end)
                           THEN enum_lookup[Val(range_configs[last].end)]
                           ELSE Len(enum_values)>>>>
    IN [ranges |-> ranges, matches |-> AnyRange(ranges, value)]

HasPathExpr(range_configs, enum_values, terms, value) ==
    LET ranges == DefinedRanges(
            WalkRangeConfigs(range_configs, EnumLookup(enum_values), terms, 1, <<NoRange>>))
    IN [ranges |-> ranges, matches |-> AnyRange(ranges, value)]

PathInit ==
    /\ pc = "args"
    /\ UnusedByFunctions
    /\ request \in [range_configs : RangeConfigs, terms : PathTerms,
                    value : {Missing} \cup {Some(v) : v \in EnumIds}]
    /\ call = NoCall

\* self._has_path_expr(ht, terms, field) on one row, mito.py:516
CallHasPathExpr ==
    /\ pc = "args"
    /\ call' = [op |-> "has_path_expr",
                results |-> HasPathExpr(request.range_configs, EnumValues,
                                        request.terms, request.value)]
    /\ pc' = "done"
    /\ UNCHANGED <<request, unused_by_functions>>

PathNext == CallHasPathExpr

SpecPath == PathInit /\ [][PathNext]_vars

----------------------------------------------------------------------------
(* Vocabulary of the property of the pathogenicity ranges *)

Requested(i) == request.range_configs[i].path_filter \in request.terms

\* the maximal runs <<i, j>> of requested neighbours of the configuration
RequestedRuns ==
    LET n == Len(request.range_configs)
    IN {run \in (1..n) \X (1..n) :
          /\ run[1] <= run[2]
          /\ \A k \in run[1]..run[2] : Requested(k)
          /\ run[1] = 1 \/ ~Requested(run[1] - 1)
          /\ run[2] = n \/ ~Requested(run[2] + 1)}

IdOf(name) == CHOOSE id \in EnumIds : EnumValues[id + 1] = name

RangeOfRun(run) ==
    <<IdOf(request.range_configs[run[1]].start),
      IF IsDefined(request.range_configs[run[2]].end)
      THEN IdOf(Val(request.range_configs[run[2]].end)) ELSE Len(EnumValues)>>

(* C11: every maximal run of requested neighbours of the range             *)
(* configuration gives exactly one inclusive range, from the id of its     *)
(* first start to the id of its last end (the size of the enum when that   *)
(* end is open); the ranges of different runs are disjoint; a variant      *)
(* matches iff its pathogenicity id lies in one of the ranges; no filter   *)
(* requested gives no range.                                               *)
C11_OneRangePerRequestedRun ==
    (pc = "done" /\ call.op = "has_path_expr") =>
        LET ranges == call.results.ranges
        IN /\ Len(ranges) = Cardinality(RequestedRuns)
           /\ \A run \in RequestedRuns :
                Cardinality({k \in DOMAIN ranges : ranges[k] = RangeOfRun(run)}) = 1
           /\ \A r1, r2 \in RequestedRuns :
                r1[1] < r2[1] => RangeOfRun(r1)[2] < RangeOfRun(r2)[1]
           /\ (call.results.matches = Some(TRUE)) <=>
                /\ IsDefined(request.value)
                /\ \E run \in RequestedRuns :
                     /\ RangeOfRun(run)[1] <= Val(request.value)
                     /\ Val(request.value) <= RangeOfRun(run)[2]
           /\ (\A i \in DOMAIN request.range_configs : ~Requested(i)) => ranges = <<>>

\* two neighbours requested, the next one not, the one after requested: two
\* ranges, and the variant's id lies in the merged one past its first end
C11_Witness ==
    /\ pc = "done"
    /\ call.op = "has_path_expr"
    /\ Len(request.range_configs) = 4
    /\ Requested(1) /\ Requested(2) /\ ~Requested(3) /\ Requested(4)
    /\ Len(call.results.ranges) = 2
    /\ IsDefined(request.value)
    /\ Val(request.value) > IdOf(Val(request.range_configs[1].end))
    /\ call.results.matches = Some(TRUE)

----------------------------------------------------------------------------
(* Interval search, mito.py:381-385 and 445-455 *)

\* hail_search.constants.MAX_LOAD_INTERVALS, scaled to the model's intervals
MAX_LOAD_INTERVALS == 3

Loci == 1..MaxLocus

\* parsed intervals: inclusive <<start, end>> over the loci
IntervalChoices == {<<1, 1>>, <<2, MaxLocus>>}
ParsedIntervals == UNION {[1..n -> IntervalChoices] : n \in 0..MaxIntervals}

InIntervals(locus, intervals) ==
    \E k \in DOMAIN intervals : intervals[k][1] <= locus /\ locus <= intervals[k][2]

\* hl.filter_intervals(ht, intervals, keep)
FilterIntervals(rows, intervals, keep) ==
    {locus \in rows : InIntervals(locus, intervals) = keep}

NoLoadTableKwargs == [intervals |-> Missing, filter_intervals |-> FALSE]

\* _parse_intervals: the _load_table_kwargs it leaves
ParseIntervals(load_table_kwargs, parsed_intervals, exclude_intervals) ==
    IF /\ parsed_intervals # <<>>
       /\ ~exclude_intervals
       /\ Len(parsed_intervals) < MAX_LOAD_INTERVALS
    THEN [intervals |-> Some(parsed_intervals), filter_intervals |-> TRUE]
    ELSE load_table_kwargs

\* hl.read_table(path, **self._load_table_kwargs): _intervals with
\* _filter_intervals reads the rows of the intervals only
ReadTableIntervals(rows, load_table_kwargs) ==
    IF IsDefined(load_table_kwargs.intervals) /\ load_table_kwargs.filter_intervals
    THEN FilterIntervals(rows, Val(load_table_kwargs.intervals), TRUE)
    ELSE rows

\* post-load filtering only above the limit
PrefilterEntriesTableAboveLimit(rows, parsed_intervals, exclude_intervals, n_partitions) ==
    LET num_intervals == Len(parsed_intervals)
    IN [rows |-> IF exclude_intervals /\ parsed_intervals # <<>>
                 THEN FilterIntervals(rows, parsed_intervals, FALSE)
                 ELSE IF num_intervals > MAX_LOAD_INTERVALS
                 THEN FilterIntervals(rows, parsed_intervals, TRUE)
                 ELSE rows,
        filtered |-> \/ exclude_intervals /\ parsed_intervals # <<>>
                     \/ num_intervals > MAX_LOAD_INTERVALS,
        coalesced |-> num_intervals > n_partitions]

\* _prefilter_entries_table: the rows it returns, whether it filtered them
\* by interval and whether it coalesced the partitions
PrefilterEntriesTable(rows, parsed_intervals, exclude_intervals, n_partitions) ==
    LET num_intervals == Len(parsed_intervals)
    IN [rows |-> IF exclude_intervals /\ parsed_intervals # <<>>
                 THEN FilterIntervals(rows, parsed_intervals, FALSE)
                 ELSE IF num_intervals >= MAX_LOAD_INTERVALS
                 THEN FilterIntervals(rows, parsed_intervals, TRUE)
                 ELSE rows,
        filtered |-> \/ exclude_intervals /\ parsed_intervals # <<>>
                     \/ num_intervals >= MAX_LOAD_INTERVALS,
        coalesced |-> num_intervals > n_partitions]

IntervalsInit ==
    /\ pc = "args"
    /\ UnusedByFunctions
    /\ request \in [intervals : ParsedIntervals, exclude_intervals : BOOLEAN,
                    table : SUBSET Loci, n_partitions : {2, MaxIntervals}]
    /\ call = NoCall

\* self._parse_intervals(intervals, exclude_intervals), mito.py:381
CallParseIntervals ==
    /\ pc = "args"
    /\ call' = [op |-> "parse_intervals",
                load_table_kwargs |-> ParseIntervals(NoLoadTableKwargs, request.intervals,
                                                     request.exclude_intervals),
                results |-> <<>>]
    /\ pc' = "parsed"
    /\ UNCHANGED <<request, unused_by_functions>>

\* the entries table is read with self._load_table_kwargs
CallReadTable ==
    /\ pc = "parsed"
    /\ call' = [call EXCEPT !.op = "read_table",
                            !.results = <<[rows |-> ReadTableIntervals(request.table,
                                                        call.load_table_kwargs)]>>]
    /\ pc' = "loaded"
    /\ UNCHANGED <<request, unused_by_functions>>

\* self._prefilter_entries_table(ht, parsed_intervals, exclude_intervals), mito.py:445
CallPrefilterEntriesTable ==
    /\ pc = "loaded"
    /\ call' = [call EXCEPT !.op = "prefilter_entries_table",
                            !.results = <<PrefilterEntriesTable(call.results[1].rows,
                                              request.intervals, request.exclude_intervals,
                                              request.n_partitions)>>]
    /\ pc' = "done"
    /\ UNCHANGED <<request, unused_by_functions>>

IntervalsNext ==
    \/ CallParseIntervals
    \/ CallReadTable
    \/ CallPrefilterEntriesTable

SpecIntervals == IntervalsInit /\ [][IntervalsNext]_vars

----------------------------------------------------------------------------
(* Vocabulary of the property of the interval search *)

Prefiltered == pc = "done" /\ call.op = "prefilter_entries_table"
NumIntervals == Len(request.intervals)
LoadRestricted ==
    /\ call.load_table_kwargs.intervals = Some(request.intervals)
    /\ call.load_table_kwargs.filter_intervals
LoadUnrestricted == call.load_table_kwargs = NoLoadTableKwargs
PostLoadFiltered == call.results[1].filtered

(* C12, as stated: in a non-excluding search the intervals restrict the    *)
(* load and no post-load filter is applied when 1 <= n <= N, the table is  *)
(* loaded unrestricted and filtered after the load when n > N, and exactly *)
(* one of the two is used for every n >= 1.  With n = N the code filters   *)
(* after the load.                                                         *)
C12_LoadRestrictedUpToLimit ==
    (Prefiltered /\ ~request.exclude_intervals /\ NumIntervals >= 1) =>
        /\ NumIntervals <= MAX_LOAD_INTERVALS => LoadRestricted /\ ~PostLoadFiltered
        /\ NumIntervals > MAX_LOAD_INTERVALS => LoadUnrestricted /\ PostLoadFiltered
        /\ LoadRestricted # PostLoadFiltered

(* C12, amended: in a non-excluding search the intervals restrict the load *)
(* and no post-load filter is applied when 1 <= n < N, the table is loaded *)
(* unrestricted and filtered after the load when n >= N, and exactly one   *)
(* of the two is used for every n >= 1.                                    *)
C12_LoadRestrictedBelowLimit ==
    (Prefiltered /\ ~request.exclude_intervals /\ NumIntervals >= 1) =>
        /\ NumIntervals < MAX_LOAD_INTERVALS => LoadRestricted /\ ~PostLoadFiltered
        /\ NumIntervals >= MAX_LOAD_INTERVALS => LoadUnrestricted /\ PostLoadFiltered
        /\ LoadRestricted # PostLoadFiltered

\* exactly N intervals that leave a row of the table out: filtered after an
\* unrestricted load
C12_Witness ==
    /\ Prefiltered
    /\ ~request.exclude_intervals
    /\ NumIntervals = MAX_LOAD_INTERVALS
    /\ LoadUnrestricted
    /\ PostLoadFiltered
    /\ call.results[1].rows # request.table
    /\ call.results[1].rows # {}

----------------------------------------------------------------------------
(* Loading the project tables of both sample types, mito.py:274-330 *)

chunk_size == 64

Projects == 1..MaxProjects

\* project_samples: the sample types each project has samples of, both
\* sample types being searched (mito.py:277-281)
ProjectSamples ==
    {ps \in [Projects -> (SUBSET SampleTypes) \ {{}}] :
        UNION {ps[p] : p \in Projects} = SampleTypes}

\* the project tables on disk: the variants of each, or no table
ProjectTables == [Projects \X SampleTypes -> {Missing} \cup {Some(rows) : rows \in SUBSET Variants}]

\* mito.py:302-307: the project guids in chunks of chunk_size, the last
\* chunk appended whatever it holds
ProjectGuidChunks(project_guids) ==
    [k \in 1..((Len(project_guids) \div chunk_size) + 1) |->
        SubSeq(project_guids, (k - 1) * chunk_size + 1,
               IF k * chunk_size < Len(project_guids) THEN k * chunk_size
               ELSE Len(project_guids))]

\* self._prefilter_merged_project_hts: the merged table of a chunk's project
\* tables and their family data, appended to prefiltered_project_hts
PrefilterMergedProjectHts(project_hts, project_family_data, prefiltered_project_hts) ==
    IF project_hts = <<>> THEN prefiltered_project_hts
    ELSE Append(prefiltered_project_hts,
                [rows |-> UNION {project_hts[k] : k \in DOMAIN project_hts},
                 families |-> project_family_data])

\* mito.py:310-328 for one sample type: the prefiltered tables of the chunks
RECURSIVE PrefilteredProjectHts(_, _, _, _)
PrefilteredProjectHts(project_data, chunks, k, prefiltered_project_hts) ==
    IF k > Len(chunks) THEN prefiltered_project_hts
    ELSE LET loaded == SelectSeq(chunks[k], LAMBDA p : p \in DOMAIN project_data)
             project_hts == [i \in DOMAIN loaded |-> project_data[loaded[i]]]
             project_family_data == {loaded[i] : i \in DOMAIN loaded}
         IN PrefilteredProjectHts(project_data, chunks, k + 1,
                PrefilterMergedProjectHts(project_hts, project_family_data,
                                          prefiltered_project_hts))

\* unmerged_entries_hts_map (mito.py:296-300): per sample type the projects
\* whose table was read; a sample type without any is no key of it
UnmergedEntriesHtsMap(project_samples, tables) ==
    LET read(t) == {p \in Projects : t \in project_samples[p] /\ IsDefined(tables[<<p, t>>])}
    IN [t \in {s \in SampleTypes : read(s) # {}} |->
          [p \in read(t) |-> Val(tables[<<p, t>>])]]

\* _load_prefiltered_project_hts_both_sample_types: entries_hts_map
LoadPrefilteredProjectHtsBothSampleTypes(project_samples, tables) ==
    LET unmerged == UnmergedEntriesHtsMap(project_samples, tables)
        chunks == ProjectGuidChunks(SortedSeq(Projects))
    IN [t \in DOMAIN unmerged |-> PrefilteredProjectHts(unmerged[t], chunks, 1, <<>>)]

\* _filter_entries_ht_both_sample_types over the chunks (mito.py:150-203):
\* a KeyError for a sample type that is no key of entries_hts_map, otherwise
\* the variants of the outer joins of the chunks zipped pairwise
FilterEntriesHtBothSampleTypes(entries_hts_map) ==
    IF SampleTypes \subseteq DOMAIN entries_hts_map
    THEN LET wes_entries == entries_hts_map[SAMPLE_TYPE_WES]
             wgs_entries == entries_hts_map[SAMPLE_TYPE_WGS]
             zipped == 1..(IF Len(wes_entries) < Len(wgs_entries)
                           THEN Len(wes_entries) ELSE Len(wgs_entries))
         IN [raised |-> FALSE,
             rows |-> UNION {wes_entries[k].rows \cup wgs_entries[k].rows : k \in zipped}]
    ELSE [raised |-> TRUE, rows |-> {}]

LoadInit ==
    /\ pc = "args"
    /\ UnusedByFunctions
    /\ request \in [project_samples : ProjectSamples, tables : ProjectTables]
    /\ call = NoCall

\* mito.py:284: entries_hts_map = self._load_prefiltered_project_hts_both_sample_types(...)
CallLoadPrefilteredProjectHts ==
    /\ pc = "args"
    /\ call' = [op |-> "load_prefiltered_project_hts_both_sample_types",
                entries_hts_map |-> LoadPrefilteredProjectHtsBothSampleTypes(
                                        request.project_samples, request.tables),
                results |-> <<>>]
    /\ pc' = "loaded"
    /\ UNCHANGED <<request, unused_by_functions>>

\* mito.py:285: return self._filter_entries_ht_both_sample_types(entries_hts_map, ...)
CallFilterEntriesHtBothSampleTypes ==
    /\ pc = "loaded"
    /\ LET r == FilterEntriesHtBothSampleTypes(call.entries_hts_map)
       IN /\ call' = [call EXCEPT !.op = "filter_entries_ht_both_sample_types",
                                  !.results = IF r.raised THEN <<>> ELSE <<r.rows>>]
          /\ pc' = IF r.raised THEN "raised" ELSE "done"
    /\ UNCHANGED <<request, unused_by_functions>>

LoadNext ==
    \/ CallLoadPrefilteredProjectHts
    \/ CallFilterEntriesHtBothSampleTypes

SpecLoad == LoadInit /\ [][LoadNext]_vars

----------------------------------------------------------------------------
(* Vocabulary of the property of the missing project tables *)

\* the variants of the project tables that exist
RowsOfTablesRead ==
    UNION {Val(request.tables[<<p, t>>]) :
             <<p, t>> \in {pt \in Projects \X SampleTypes :
                             /\ pt[2] \in request.project_samples[pt[1]]
                             /\ IsDefined(request.tables[pt])}}

(* C13: a (project, sample type) pair whose table is missing is skipped    *)
(* and contributes no rows without aborting the query, also when every     *)
(* project's table of one sample type, or of both, is missing: loading     *)
(* followed by _filter_entries_ht_both_sample_types completes and yields   *)
(* the variants of the tables that exist.                                  *)
C13_MissingTablesAreSkipped ==
    /\ pc # "raised"
    /\ (pc = "done" /\ call.op = "filter_entries_ht_both_sample_types") =>
            call.results = <<RowsOfTablesRead>>

----------------------------------------------------------------------------
(* Vocabulary of the property of the family index map *)

HasIndex(g, t) == g \in DOMAIN family_idx_map /\ t \in DOMAIN family_idx_map[g]
IndexMapBuilt == pc \in {"bound", "joined", "annotated", "merged", "error"}

(* C14: the family index map holds map[g][t] = i iff the family at         *)
(* position i of the sorted family sample data of sample type t has guid   *)
(* g; a family that is not in a sample type's list has no entry for that   *)
(* sample type, and every stored index is a valid position of that sample  *)
(* type's family-entries array.                                            *)
C14_FamilyIndexMapIsPositionOfFamily ==
    IndexMapBuilt =>
        \A g \in FamilyGuids, t \in SampleTypes :
            /\ \A i \in 0..MaxFamilies :
                 (HasIndex(g, t) /\ family_idx_map[g][t] = i)
                    <=> (i \in Positions(Data(t)) /\ GuidAt(t, i) = g)
            /\ ~InTable(g, t) => ~HasIndex(g, t)
            /\ HasIndex(g, t) =>
                 /\ family_idx_map[g][t] \in Positions(Data(t))
                 /\ IsDefined(EntriesField(t)) =>
                      family_idx_map[g][t] \in Positions(Val(EntriesField(t)))

\* a family of both sample types at different positions of the two lists,
\* next to a family of one sample type only, in a row that has both arrays
C14_Witness ==
    /\ pc = "joined"
    /\ IsDefined(ht.wes_family_entries) /\ IsDefined(ht.wgs_family_entries)
    /\ \E g \in FamilyGuids :
         /\ HasIndex(g, SAMPLE_TYPE_WES) /\ HasIndex(g, SAMPLE_TYPE_WGS)
         /\ family_idx_map[g][SAMPLE_TYPE_WES] # family_idx_map[g][SAMPLE_TYPE_WGS]
    /\ \E g \in FamilyGuids :
         HasIndex(g, SAMPLE_TYPE_WGS) /\ ~HasIndex(g, SAMPLE_TYPE_WES)

----------------------------------------------------------------------------
(* The inheritance annotations of one chunk of                             *)
(* _filter_entries_ht_both_sample_types, mito.py:153-199.  `call.results`  *)
(* holds the _annotate_families_inheritance calls of the chunk in order.   *)

COMPOUND_HET == "compound_het"
RECESSIVE == "recessive"
ANY_AFFECTED == "any_affected"

\* self._inheritance_mode: None or a mode
InheritanceModes == {Missing, Some(RECESSIVE), Some(ANY_AFFECTED), Some(COMPOUND_HET)}

\* inheritance_filter: None, an empty dict or a dict of filters
InheritanceFilters == {Missing, Some({}), Some({"genotype"})}

\* the truth value python gives inheritance_filter and self._inheritance_mode
Truthy(o) == IsDefined(o) /\ Val(o) # {}

\* mito.py:188: is_any_affected or not (inheritance_filter or self._inheritance_mode)
NoSampleSpecificFiltering(is_any_affected, inheritance_filter, inheritance_mode) ==
    is_any_affected \/ ~(Truthy(inheritance_filter) \/ IsDefined(inheritance_mode))

\* the family sample data of the compound-het annotation were the shortcut
\* taken first
CompHetFamilySampleDataAfterShortcut(sorted_family_sample_data, is_any_affected, inheritance_filter, inheritance_mode) ==
    IF NoSampleSpecificFiltering(is_any_affected, inheritance_filter, inheritance_mode)
    THEN <<>> ELSE sorted_family_sample_data

\* mito.py:179-184: the family sample data the compound-het annotation gets
CompHetFamilySampleData(sorted_family_sample_data, is_any_affected, inheritance_filter, inheritance_mode) ==
    sorted_family_sample_data

\* one call of self._annotate_families_inheritance
AnnotateFamiliesInheritance(table, inheritance_mode, sample_type, sorted_family_sample_data) ==
    [table |-> table, inheritance_mode |-> inheritance_mode, sample_type |-> sample_type,
     sorted_family_sample_data |-> sorted_family_sample_data]

InheritanceInit ==
    /\ pc = "start"
    /\ UnusedByFunctions
    /\ call = NoCall
    /\ request \in [inheritance_mode : InheritanceModes,
                    inheritance_filter : InheritanceFilters,
                    has_comp_het_search : BOOLEAN,   \* self._has_comp_het_search
                    is_any_affected : BOOLEAN]       \* of _get_any_family_member_gt_has_alt_filter()

\* mito.py:178-186: the compound-het table of the chunk
AnnotateCompHet ==
    /\ pc = "bound"
    /\ call' = [op |-> "annotate_families_inheritance",
                results |->
                    IF request.has_comp_het_search
                    THEN <<AnnotateFamiliesInheritance("comp_het_ht", Some(COMPOUND_HET),
                               SAMPLE_TYPE_WES,
                               CompHetFamilySampleData(sorted_wes_family_sample_data,
                                   request.is_any_affected,
                                   request.inheritance_filter, request.inheritance_mode)),
                           AnnotateFamiliesInheritance("comp_het_ht", Some(COMPOUND_HET),
                               SAMPLE_TYPE_WGS,
                               CompHetFamilySampleData(sorted_wgs_family_sample_data,
                                   request.is_any_affected,
                                   request.inheritance_filter, request.inheritance_mode))>>
                    ELSE <<>>]
    /\ pc' = "comp_het"
    /\ UNCHANGED <<request, sorted_wes_family_sample_data, sorted_wgs_family_sample_data,
                   family_idx_map, merged, ht, filter_hts, clinvar_path_variants,
                   n_get_filters, n_read_table, n_calls, has_both_sample_types>>

\* mito.py:188-190: no sample-specific inheritance filtering needed
EmptyFamilySampleData ==
    /\ pc = "comp_het"
    /\ IF NoSampleSpecificFiltering(request.is_any_affected,
                                    request.inheritance_filter, request.inheritance_mode)
       THEN /\ sorted_wes_family_sample_data' = <<>>
            /\ sorted_wgs_family_sample_data' = <<>>
       ELSE UNCHANGED <<sorted_wes_family_sample_data, sorted_wgs_family_sample_data>>
    /\ pc' = "shortcut"
    /\ UNCHANGED <<request, call, family_idx_map, merged, ht, filter_hts,
                   clinvar_path_variants, n_get_filters, n_read_table, n_calls,
                   has_both_sample_types>>

\* mito.py:192-199: the table of the chunk for the other modes
AnnotateInheritance ==
    /\ pc = "shortcut"
    /\ call' = [call EXCEPT !.results =
                    IF request.inheritance_mode # Some(COMPOUND_HET)
                    THEN @ \o <<AnnotateFamiliesInheritance("ht", request.inheritance_mode,
                                    SAMPLE_TYPE_WES, sorted_wes_family_sample_data),
                                AnnotateFamiliesInheritance("ht", request.inheritance_mode,
                                    SAMPLE_TYPE_WGS, sorted_wgs_family_sample_data)>>
                    ELSE @]
    /\ pc' = "chunk_done"
    /\ UNCHANGED <<request, sorted_wes_family_sample_data, sorted_wgs_family_sample_data,
                   family_idx_map, merged, ht, filter_hts, clinvar_path_variants,
                   n_get_filters, n_read_table, n_calls, has_both_sample_types>>

\* mito.py:153: the next chunk of project tables
NextChunk ==
    /\ pc = "chunk_done"
    /\ n_calls + 1 < MaxCalls
    /\ n_calls' = n_calls + 1
    /\ pc' = "start"
    /\ sorted_wes_family_sample_data' = <<>>
    /\ sorted_wgs_family_sample_data' = <<>>
    /\ family_idx_map' = <<>>
    /\ call' = NoCall
    /\ UNCHANGED <<request, merged, ht, filter_hts, clinvar_path_variants,
                   n_get_filters, n_read_table, has_both_sample_types>>

InheritanceNext ==
    \/ AddEntrySampleFamilies
    \/ AnnotateCompHet
    \/ EmptyFamilySampleData
    \/ AnnotateInheritance
    \/ NextChunk

SpecInheritance == InheritanceInit /\ [][InheritanceNext]_vars

----------------------------------------------------------------------------
(* Vocabulary of the properties of the inheritance annotations *)

AnnotateCalls == IF call.op = "annotate_families_inheritance" THEN call.results ELSE <<>>

\* the data is the chunk's full sorted family sample data of the sample
\* type: the list the family index map was built from
IsFullFamilySampleData(data, t) ==
    /\ data # <<>>
    /\ Len(data) = Cardinality({g \in FamilyGuids : HasIndex(g, t)})
    /\ \A g \in FamilyGuids :
          HasIndex(g, t) => At(data, family_idx_map[g][t])[1].familyGuid = g

ShortcutTaken ==
    NoSampleSpecificFiltering(request.is_any_affected,
                              request.inheritance_filter, request.inheritance_mode)

(* C15: whenever a compound-het search is requested, the compound-het      *)
(* annotation of both sample types is computed from the full sorted family *)
(* sample data of each, never from the emptied list; the shortcut empties  *)
(* the lists after it and reaches only the annotations of the other table. *)
C15_CompHetUsesFullFamilySampleData ==
    /\ \A k \in DOMAIN AnnotateCalls :
         AnnotateCalls[k].table = "comp_het_ht" =>
            /\ AnnotateCalls[k].inheritance_mode = Some(COMPOUND_HET)
            /\ IsFullFamilySampleData(AnnotateCalls[k].sorted_family_sample_data,
                                      AnnotateCalls[k].sample_type)
    /\ \A k \in DOMAIN AnnotateCalls :
         AnnotateCalls[k].sorted_family_sample_data = <<>> => AnnotateCalls[k].table = "ht"
    /\ (request.has_comp_het_search
            /\ pc \in {"comp_het", "shortcut", "chunk_done"}) =>
          \A t \in SampleTypes :
             \E k \in DOMAIN AnnotateCalls :
                /\ AnnotateCalls[k].table = "comp_het_ht"
                /\ AnnotateCalls[k].sample_type = t
                /\ \A j \in DOMAIN AnnotateCalls :
                      AnnotateCalls[j].table = "ht" => k < j

\* a compound-het search whose shortcut is taken: the other table is
\* annotated from the emptied lists after the compound-het table was
\* annotated from the full ones
C15_Witness ==
    /\ pc = "chunk_done"
    /\ request.has_comp_het_search
    /\ ShortcutTaken
    /\ Len(AnnotateCalls) = 4
    /\ AnnotateCalls[2].sorted_family_sample_data # <<>>
    /\ AnnotateCalls[4].sorted_family_sample_data = <<>>

----------------------------------------------------------------------------
(* _selected_main_transcript_expr, mito.py:347-375.  An array is a         *)
(* sequence of elements that are each a transcript or missing; a row field *)
(* the table does not have is None.                                        *)

TranscriptIds == 1..MaxTranscripts
GeneOfTranscript(transcript_id) == (transcript_id + 1) \div 2
Transcript(transcript_id) ==
    [transcript_id |-> transcript_id, gene_id |-> GeneOfTranscript(transcript_id)]
GeneIds == {GeneOfTranscript(i) : i \in TranscriptIds}

\* sorted_transcript_consequences: the variant's transcripts in any order
SortedTranscriptConsequences ==
    {s \in UNION {[1..n -> {Some(Transcript(i)) : i \in TranscriptIds}] : n \in 0..MaxTranscripts} :
        \A j, k \in DOMAIN s : j # k => s[j] # s[k]}

\* hl array methods
First(arr) == IF arr = <<>> THEN Missing ELSE arr[1]
OrElse(a, b) == IF IsDefined(a) THEN a ELSE b

\* arr.filter(lambda t: ids.contains(t.transcript_id)) and
\* arr.filter(lambda t: gene_ids.contains(t.gene_id))
WithIds(arr, ids) ==
    SelectSeq(arr, LAMBDA e : IsDefined(e) /\ Val(e).transcript_id \in ids)
WithGenes(arr, gene_ids) ==
    SelectSeq(arr, LAMBDA e : IsDefined(e) /\ Val(e).gene_id \in gene_ids)

\* arr.find(lambda t: ids.contains(t.transcript_id)): the first match, else missing
FindWithIds(arr, ids) == First(WithIds(arr, ids))

\* the gene_transcripts field whatever pair is resolved
GeneTranscriptsField(row) == row.gene_transcripts

\* mito.py:349-353: the candidate transcripts, None without gene context
GeneTranscripts(row) ==
    IF IsDefined(row.comp_het_gene_ids)
    THEN Some(WithGenes(row.sorted_transcript_consequences, Val(row.comp_het_gene_ids)))
    ELSE row.gene_transcripts

\* the allowed_transcripts field only
AllowedTranscriptsField(row) == row.allowed_transcripts

\* mito.py:355-359: the allowed transcripts in use, None without the field
AllowedTranscripts(row) ==
    IF IsDefined(row.comp_het_gene_ids) /\ IsDefined(row.allowed_secondary_transcripts)
    THEN IF IsDefined(row.allowed_transcripts)
         THEN IF \E k \in DOMAIN Val(row.allowed_transcripts) :
                    IsDefined(Val(row.allowed_transcripts)[k])
              THEN row.allowed_transcripts
              ELSE row.allowed_secondary_transcripts
         ELSE row.allowed_secondary_transcripts
    ELSE row.allowed_transcripts

\* hl.set(allowed_transcripts.map(lambda t: t.transcript_id)), its defined ids
AllowedTranscriptIds(allowed_transcripts) ==
    {Val(allowed_transcripts[k]).transcript_id :
        k \in {j \in DOMAIN allowed_transcripts : IsDefined(allowed_transcripts[j])}}

SelectedMainTranscriptExpr(row) ==
    LET gene_transcripts == GeneTranscripts(row)
        allowed_transcripts == AllowedTranscripts(row)
        main_transcript == First(row.sorted_transcript_consequences)
        matched_transcript ==
            IF IsDefined(gene_transcripts) /\ IsDefined(allowed_transcripts)
            THEN OrElse(FindWithIds(Val(gene_transcripts),
                                    AllowedTranscriptIds(Val(allowed_transcripts))),
                        First(Val(gene_transcripts)))
            ELSE IF IsDefined(gene_transcripts) THEN First(Val(gene_transcripts))
            ELSE IF IsDefined(allowed_transcripts) THEN First(Val(allowed_transcripts))
            ELSE main_transcript
    IN [gene_transcripts |-> gene_transcripts,
        allowed_transcripts |-> allowed_transcripts,
        selected_transcript |-> OrElse(matched_transcript, main_transcript)]

\* a row: gene context and allowed transcripts are drawn from the variant's
\* transcripts by gene and by id; the id 0 stands for a missing entry
TranscriptRow(s, c, g, a, b) ==
    [sorted_transcript_consequences |-> s,
     comp_het_gene_ids |-> c,
     gene_transcripts |-> IF g = Missing THEN Missing ELSE Some(WithGenes(s, Val(g))),
     allowed_transcripts |->
         IF a = Missing THEN Missing
         ELSE IF Val(a) = {0} THEN Some(<<Missing>>) ELSE Some(WithIds(s, Val(a))),
     allowed_secondary_transcripts |->
         IF b = Missing THEN Missing ELSE Some(WithIds(s, Val(b)))]

TranscriptInit ==
    /\ pc = "args"
    /\ UnusedByFunctions
    /\ \E s \in SortedTranscriptConsequences :
       \E c \in {Missing} \cup {Some(x) : x \in SUBSET GeneIds} :
       \E g \in {Missing, Some(GeneIds), Some({1})} :
       \E a \in {Missing} \cup {Some(x) : x \in (SUBSET TranscriptIds) \cup {{0}}} :
       \E b \in {Missing} \cup {Some(x) : x \in SUBSET TranscriptIds} :
          /\ (IsDefined(c) /\ IsDefined(g)) => WithGenes(s, Val(g)) = s
          /\ request = TranscriptRow(s, c, g, a, b)
    /\ call = NoCall

\* mito.py:535: selected_transcript=self._selected_main_transcript_expr(ht)
CallSelectedMainTranscriptExpr ==
    /\ pc = "args"
    /\ call' = [op |-> "selected_main_transcript_expr",
                results |-> SelectedMainTranscriptExpr(request)]
    /\ pc' = "done"
    /\ UNCHANGED <<request, unused_by_functions>>

TranscriptNext == CallSelectedMainTranscriptExpr

SpecTranscript == TranscriptInit /\ [][TranscriptNext]_vars

----------------------------------------------------------------------------
(* Vocabulary of the properties of the selected transcript *)

Selected == pc = "done" /\ call.op = "selected_main_transcript_expr"
ResolvingCompHet == IsDefined(request.comp_het_gene_ids)
MainTranscript == First(request.sorted_transcript_consequences)

\* the candidate transcripts the row's gene context stands for, None without
\* gene context
Candidates ==
    IF ResolvingCompHet
    THEN Some(SelectSeq(request.sorted_transcript_consequences,
                        LAMBDA e : Val(e).gene_id \in Val(request.comp_het_gene_ids)))
    ELSE request.gene_transcripts
Elements(arr) == {arr[k] : k \in DOMAIN arr}

(* C17: resolving a compound-het pair the candidates are exactly the       *)
(* variant's transcripts whose gene is in the pair's gene ids, otherwise   *)
(* the caller-supplied gene transcripts if any; the selected transcript is *)
(* a candidate whenever there is one, and is the first transcript of the   *)
(* precomputed order without gene context and allowed transcripts or when  *)
(* there is no candidate; it is defined whenever the variant has a         *)
(* transcript.                                                             *)
C17_SelectedFromCandidatesElseMain ==
    Selected =>
        /\ call.results.gene_transcripts = Candidates
        /\ (IsDefined(Candidates) /\ Val(Candidates) # <<>>) =>
              call.results.selected_transcript \in Elements(Val(Candidates))
        /\ (\/ ~IsDefined(Candidates) /\ ~IsDefined(request.allowed_transcripts)
            \/ IsDefined(Candidates) /\ Val(Candidates) = <<>>) =>
              call.results.selected_transcript = MainTranscript
        /\ request.sorted_transcript_consequences # <<>> =>
              IsDefined(call.results.selected_transcript)

\* a pair resolved in a gene whose transcripts are not first in the
\* precomputed order, next to gene transcripts of the caller
C17_Witness ==
    /\ Selected
    /\ ResolvingCompHet
    /\ IsDefined(request.gene_transcripts)
    /\ Val(Candidates) # <<>>
    /\ Candidates # request.gene_transcripts
    /\ call.results.selected_transcript # MainTranscript
    /\ call.results.selected_transcript \in Elements(Val(Candidates))

HasDefinedEntry(list) == IsDefined(list) /\ \E k \in DOMAIN Val(list) : IsDefined(Val(list)[k])

\* the first candidate whose transcript id is in the list, the first
\* candidate when there is none
FirstAllowedCandidate(list) ==
    LET ids == {Val(e).transcript_id : e \in {x \in Elements(Val(list)) : IsDefined(x)}}
        allowed == {k \in DOMAIN Val(Candidates) : Val(Val(Candidates)[k]).transcript_id \in ids}
    IN IF allowed # {}
       THEN Val(Candidates)[CHOOSE k \in allowed : \A j \in allowed : k <= j]
       ELSE Val(Candidates)[1]

(* C18, as stated: the first candidate whose transcript id is in the       *)
(* allowed list is selected, the secondary list standing in for the        *)
(* primary one iff the primary one has no defined entry or is not          *)
(* supplied, whether or not a compound-het pair is resolved; the first     *)
(* candidate is selected when no candidate is in the list in use.  The     *)
(* code uses the secondary list only when a compound-het pair is resolved. *)
C18_SecondaryListWheneverPrimaryEmpty ==
    (Selected /\ IsDefined(Candidates) /\ Val(Candidates) # <<>>) =>
        LET in_use == IF ~HasDefinedEntry(request.allowed_transcripts)
                         /\ IsDefined(request.allowed_secondary_transcripts)
                      THEN request.allowed_secondary_transcripts
                      ELSE request.allowed_transcripts
        IN IsDefined(in_use) =>
              call.results.selected_transcript = FirstAllowedCandidate(in_use)

(* C18, amended: the first candidate whose transcript id is in the allowed *)
(* list is selected, the secondary list standing in for the primary one    *)
(* iff a compound-het pair is resolved and the primary one has no defined  *)
(* entry or is not supplied; the first candidate is selected when no       *)
(* candidate is in the list in use.                                        *)
C18_SecondaryListOnlyForCompHet ==
    (Selected /\ IsDefined(Candidates) /\ Val(Candidates) # <<>>) =>
        LET in_use == IF /\ ResolvingCompHet
                         /\ ~HasDefinedEntry(request.allowed_transcripts)
                         /\ IsDefined(request.allowed_secondary_transcripts)
                      THEN request.allowed_secondary_transcripts
                      ELSE request.allowed_transcripts
        IN /\ call.results.allowed_transcripts = in_use
           /\ IsDefined(in_use) =>
                 call.results.selected_transcript = FirstAllowedCandidate(in_use)

\* a pair resolved with a primary list of one missing entry: the candidate
\* of the secondary list is selected, and it is not the first candidate
C18_Witness ==
    /\ Selected
    /\ ResolvingCompHet
    /\ request.allowed_transcripts = Some(<<Missing>>)
    /\ IsDefined(request.allowed_secondary_transcripts)
    /\ Len(Val(Candidates)) >= 2
    /\ call.results.selected_transcript # Val(Candidates)[1]
    /\ call.results.selected_transcript \in Elements(Val(request.allowed_secondary_transcripts))

----------------------------------------------------------------------------
(* The gene-list sorts, mito.py:538-546.  A sort key is a sequence of      *)
(* elements that are each a value or missing.                              *)

GeneRanks == 0..MaxRank

\* gene_ranks: the rank of every ranked gene
GeneRankDicts == UNION {[genes -> GeneRanks] : genes \in SUBSET GeneIds}

\* super()._omim_sort(r, omim_gene_set) / super()._gene_rank_sort(r, gene_ranks):
\* the parent class's key of the variant
ParentSort(r) == r.parent_sort

\* r.selected_transcript.gene_id
SelectedGeneId(r) ==
    IF IsDefined(r.selected_transcript) THEN Some(Val(r.selected_transcript).gene_id)
    ELSE Missing

\* omim_gene_set.contains(gene_id): a missing gene id is in no set of genes
Contains(gene_set, gene_id) == IsDefined(gene_id) /\ Val(gene_id) \in gene_set

\* gene_ranks.get(gene_id): missing for a gene that is no key
Get(dict, key) ==
    IF IsDefined(key) /\ Val(key) \in DOMAIN dict THEN Some(dict[Val(key)]) ELSE Missing

\* the parent class's key alone
OmimSortParentOnly(r, omim_gene_set) == ParentSort(r)

\* _omim_sort, mito.py:538-542
OmimSort(r, omim_gene_set) ==
    <<Some(IF Contains(omim_gene_set, SelectedGeneId(r)) THEN 0 ELSE 1)>> \o ParentSort(r)

\* _gene_rank_sort, mito.py:544-546
GeneRankSort(r, gene_ranks) ==
    <<Get(gene_ranks, SelectedGeneId(r))>> \o ParentSort(r)

SortRows ==
    [selected_transcript : {Missing} \cup {Some(Transcript(i)) : i \in TranscriptIds},
     parent_sort : {<<Some(0)>>, <<Some(1), Some(MaxRank)>>}]

SortInit ==
    /\ pc = "args"
    /\ UnusedByFunctions
    /\ request \in [r : SortRows, omim_gene_set : SUBSET GeneIds, gene_ranks : GeneRankDicts]
    /\ call = NoCall

CallOmimSort ==
    /\ pc = "args"
    /\ call' = [op |-> "omim_sort", results |-> OmimSort(request.r, request.omim_gene_set)]
    /\ pc' = "done"
    /\ UNCHANGED <<request, unused_by_functions>>

CallGeneRankSort ==
    /\ pc = "args"
    /\ call' = [op |-> "gene_rank_sort", results |-> GeneRankSort(request.r, request.gene_ranks)]
    /\ pc' = "done"
    /\ UNCHANGED <<request, unused_by_functions>>

SortNext ==
    \/ CallOmimSort
    \/ CallGeneRankSort

SpecSort == SortInit /\ [][SortNext]_vars

----------------------------------------------------------------------------
(* Vocabulary of the property of the gene-list sorts *)

SortedBy(op) == pc = "done" /\ call.op = op
SelectedGeneIn(gene_set) ==
    /\ IsDefined(request.r.selected_transcript)
    /\ Val(request.r.selected_transcript).gene_id \in gene_set
GeneFlag(gene_set) == Some(IF SelectedGeneIn(gene_set) THEN 0 ELSE 1)
ThenParentSort == SubSeq(call.results, 2, Len(call.results)) = request.r.parent_sort

(* C20, as stated: the key of _omim_sort and of _gene_rank_sort starts     *)
(* with a flag, 0 when the selected transcript's gene is in the requested  *)
(* gene set and 1 otherwise, followed by the parent class's key of the     *)
(* variant.  The key of _gene_rank_sort starts with the gene's rank.       *)
C20_GeneListSortsPrependFlag ==
    /\ SortedBy("omim_sort") =>
          call.results[1] = GeneFlag(request.omim_gene_set) /\ ThenParentSort
    /\ SortedBy("gene_rank_sort") =>
          call.results[1] = GeneFlag(DOMAIN request.gene_ranks) /\ ThenParentSort

(* C20, amended: the key of _omim_sort starts with a flag, 0 when the      *)
(* selected transcript's gene is in the requested gene set and 1           *)
(* otherwise; the key of _gene_rank_sort starts with the rank of the       *)
(* selected transcript's gene, missing when the gene has no rank; either   *)
(* is followed by the parent class's key of the variant.                   *)
C20_OmimFlagAndGeneRank ==
    /\ SortedBy("omim_sort") =>
          call.results[1] = GeneFlag(request.omim_gene_set) /\ ThenParentSort
    /\ SortedBy("gene_rank_sort") =>
          /\ SelectedGeneIn(DOMAIN request.gene_ranks) =>
                call.results[1]
                    = Some(request.gene_ranks[Val(request.r.selected_transcript).gene_id])
          /\ ~SelectedGeneIn(DOMAIN request.gene_ranks) => call.results[1] = Missing
          /\ ThenParentSort

\* a gene of the OMIM set before a key of the parent class of two elements
C20_Witness ==
    /\ SortedBy("omim_sort")
    /\ SelectedGeneIn(request.omim_gene_set)
    /\ request.omim_gene_set # GeneIds
    /\ call.results = <<Some(0), Some(1), Some(MaxRank)>>

\* a gene ranked above one: the first element of the key is no flag
C20_WitnessRank ==
    /\ SortedBy("gene_rank_sort")
    /\ SelectedGeneIn(DOMAIN request.gene_ranks)
    /\ call.results[1] = Some(MaxRank)

----------------------------------------------------------------------------
(* Variant lookup, _add_project_lookup_data, mito.py:548-589 *)

HTTPNotFound == "HTTPNotFound"
HTTPBadRequest == "HTTPBadRequest"

\* an annotation field a lookup may be given (a key of BASE_ANNOTATION_FIELDS)
\* and the one it adds
GivenAnnotationFields == {"mainTranscriptId"}
FamilyGenotypes == "familyGenotypes"

\* the keys of lookup_ht.project_sample_types: (project guid, sample type)
ProjectKeys == Projects \X SampleTypes
LookupFamilyIndices == 0..(MaxFamilies - 1)
MaxLookupKeys == MaxProjects + 1

\* lookup_ht.project_families[project_key][j]: the families of a project, the
\* same under both sample types
ProjectFamilyGuid(project_key, j) == (project_key[1] - 1) * MaxFamilies + j + 1

\* the per-family statistics of the looked-up variant
RefOnlyStat == [heteroplasmic_samples |-> 0, homoplasmic_samples |-> 0]
NonRefStat(j) ==
    IF j % 3 = 0 THEN [heteroplasmic_samples |-> 1, homoplasmic_samples |-> 0]
    ELSE IF j % 3 = 1 THEN [heteroplasmic_samples |-> 0, homoplasmic_samples |-> 2]
    ELSE [heteroplasmic_samples |-> 1, homoplasmic_samples |-> 1]

\* the order of project_sample_types: by project, or by sample type first
KeyRank(project_key, by_sample_type) ==
    LET t == IF project_key[2] = SAMPLE_TYPE_WES THEN 0 ELSE 1
    IN IF by_sample_type THEN t * MaxProjects + project_key[1]
       ELSE 2 * project_key[1] + t
KeySeq(keys, by_sample_type) ==
    LET ranks == SortedSeq({KeyRank(k, by_sample_type) : k \in keys})
    IN [i \in DOMAIN ranks |-> CHOOSE k \in keys : KeyRank(k, by_sample_type) = ranks[i]]

\* the row of lookup.ht for the looked-up variant with its globals: the
\* project keys in the table, and the families with a non-reference call
LookupHt(keys, non_ref, by_sample_type) ==
    LET project_sample_types == KeySeq(keys, by_sample_type)
    IN [project_sample_types |-> project_sample_types,
        project_stats |->
            [i \in DOMAIN project_sample_types |->
                [j \in 1..MaxFamilies |->
                    IF <<project_sample_types[i], j - 1>> \in non_ref
                    THEN NonRefStat(j - 1) ELSE RefOnlyStat]],
        project_families |->
            [k \in keys |-> [j \in 1..MaxFamilies |-> ProjectFamilyGuid(k, j - 1)]]]

\* a statistic counts only with homoplasmic samples
StatHasNonRefHomoplasmicOnly(s) == s.homoplasmic_samples > 0

\* _stat_has_non_ref, mito.py:587-589
StatHasNonRef(s) == (s.heteroplasmic_samples > 0) \/ (s.homoplasmic_samples > 0)

\* hl.enumerate(ps).starmap(lambda j, s: hl.or_missing(self._stat_has_non_ref(s), j))
\*   .filter(hl.is_defined), mito.py:557-559
NonRefFamilyIndices(ps) ==
    LET indices == [j \in DOMAIN ps |-> OrMissing(StatHasNonRef(ps[j]), Some(j - 1))]
    IN SelectSeq(indices, IsDefined)

\* mito.py:554-572: {project_guid: {sample_type: {family_guid: True}}}
VariantProjects(lookup_ht) ==
    LET entries == [i \in DOMAIN lookup_ht.project_stats |->
                       [project_key |-> lookup_ht.project_sample_types[i],
                        family_indices |-> NonRefFamilyIndices(lookup_ht.project_stats[i])]]
        kept == SelectSeq(entries, LAMBDA x : \E k \in DOMAIN x.family_indices :
                                                 IsDefined(x.family_indices[k]))
        families(x) ==
            LET guids == {At(lookup_ht.project_families[x.project_key], Val(x.family_indices[k])) :
                            k \in DOMAIN x.family_indices}
            IN [f \in guids |-> TRUE]
        group(p) == {k \in DOMAIN kept : kept[k].project_key[1] = p}
    IN [p \in {kept[k].project_key[1] : k \in DOMAIN kept} |->
          [t \in {kept[k].project_key[2] : k \in group(p)} |->
              families(kept[CHOOSE k \in group(p) : kept[k].project_key[2] = t])]]

\* _add_project_lookup_data: what is raised, the annotation fields afterwards,
\* whether lookup.ht was read, and the project_samples handed to
\* super()._add_project_lookup_data
AddProjectLookupData(lookup_ht, annotation_fields) ==
    IF ~IsDefined(lookup_ht)
    THEN [raised |-> Some(HTTPNotFound), annotation_fields |-> annotation_fields,
          read_table |-> TRUE, project_samples |-> Missing]
    ELSE LET variant_projects == VariantProjects(Val(lookup_ht))
         IN IF DOMAIN variant_projects = {}
            THEN [raised |-> Some(HTTPNotFound), annotation_fields |-> annotation_fields,
                  read_table |-> TRUE, project_samples |-> Missing]
            ELSE [raised |-> Missing,
                  annotation_fields |-> annotation_fields \cup {FamilyGenotypes},
                  read_table |-> TRUE, project_samples |-> Some(variant_projects)]

\* the lookup table of the variant, if any, and the annotation fields
LookupInit ==
    /\ pc = "args"
    /\ UnusedByFunctions
    /\ call = NoCall
    /\ \E annotation_fields \in SUBSET GivenAnnotationFields :
         \/ request = [lookup_ht |-> Missing, annotation_fields |-> annotation_fields]
         \/ \E keys \in {ks \in SUBSET ProjectKeys : Cardinality(ks) <= MaxLookupKeys} :
              \E non_ref \in SUBSET (keys \X LookupFamilyIndices) :
                \E by_sample_type \in BOOLEAN :
                   request = [lookup_ht |-> Some(LookupHt(keys, non_ref, by_sample_type)),
                              annotation_fields |-> annotation_fields]

CallAddProjectLookupData ==
    /\ pc = "args"
    /\ LET r == AddProjectLookupData(request.lookup_ht, request.annotation_fields)
       IN /\ call' = [op |-> "add_project_lookup_data", raised |-> r.raised,
                      annotation_fields |-> r.annotation_fields,
                      read_table |-> r.read_table, project_samples |-> r.project_samples]
          /\ pc' = IF IsDefined(r.raised) THEN "raised" ELSE "done"
    /\ UNCHANGED <<request, unused_by_functions>>

LookupNext == CallAddProjectLookupData

SpecLookup == LookupInit /\ [][LookupNext]_vars

----------------------------------------------------------------------------
(* Vocabulary of the property of the variant lookup *)

LookedUp == call.op = "add_project_lookup_data"
LookupTableMissing == ~IsDefined(request.lookup_ht)

\* the positions of a project key in the lookup table
KeyPositions(p, t) ==
    IF LookupTableMissing THEN {}
    ELSE {i \in DOMAIN Val(request.lookup_ht).project_sample_types :
             Val(request.lookup_ht).project_sample_types[i] = <<p, t>>}

\* the families of a project and sample type with a non-reference call
NonRefFamilies(p, t) ==
    {Val(request.lookup_ht).project_families[<<p, t>>][j] :
        j \in {k \in 1..MaxFamilies :
                 \E i \in KeyPositions(p, t) :
                    LET s == Val(request.lookup_ht).project_stats[i][k]
                    IN s.heteroplasmic_samples > 0 \/ s.homoplasmic_samples > 0}}

NoNonRefFamily == \A p \in Projects, t \in SampleTypes : NonRefFamilies(p, t) = {}

\* the families the map handed on holds under a project and sample type
PassedOnFamilies(p, t) ==
    LET project_samples == Val(call.project_samples)
    IN IF p \in DOMAIN project_samples /\ t \in DOMAIN project_samples[p]
       THEN DOMAIN project_samples[p][t] ELSE {}

(* C23: _add_project_lookup_data raises not-found, leaves the annotation   *)
(* fields without familyGenotypes and hands nothing to the project search  *)
(* when the lookup table is missing or no family of the variant has a      *)
(* non-reference call; otherwise the map it hands on holds, per project    *)
(* and sample type, exactly the families with a non-reference call, and    *)
(* no project or sample type without such a family.                        *)
C23_LookupNotFoundOrNonRefFamilies ==
    LookedUp =>
        IF LookupTableMissing \/ NoNonRefFamily
        THEN /\ call.raised = Some(HTTPNotFound)
             /\ FamilyGenotypes \notin call.annotation_fields
             /\ call.annotation_fields = request.annotation_fields
             /\ ~IsDefined(call.project_samples)
        ELSE /\ ~IsDefined(call.raised)
             /\ IsDefined(call.project_samples)
             /\ \A p \in Projects, t \in SampleTypes :
                  PassedOnFamilies(p, t) = NonRefFamilies(p, t)
             /\ \A p \in DOMAIN Val(call.project_samples) :
                  /\ p \in Projects
                  /\ DOMAIN Val(call.project_samples)[p] \subseteq SampleTypes
                  /\ \A t \in DOMAIN Val(call.project_samples)[p] :
                       NonRefFamilies(p, t) # {}

\* a lookup handed on with a project under both sample types, another key
\* of the table left out, and a family left out of a key handed on
C23_Witness ==
    /\ LookedUp
    /\ IsDefined(call.project_samples)
    /\ \E p \in DOMAIN Val(call.project_samples) :
         DOMAIN Val(call.project_samples)[p] = SampleTypes
    /\ \E p \in Projects, t \in SampleTypes :
         KeyPositions(p, t) # {} /\ PassedOnFamilies(p, t) = {}
    /\ \E p \in Projects, t \in SampleTypes :
         /\ PassedOnFamilies(p, t) # {}
         /\ Cardinality(PassedOnFamilies(p, t)) < MaxFamilies

----------------------------------------------------------------------------
(* OntSnvIndelHailTableQuery, ont_snv_indel.py:7-22: a query class whose   *)
(* ancestors include MitoHailTableQuery and which overrides two methods    *)

\* the method as inherited, were it not overridden
OntAddProjectLookupDataInherited(lookup_ht, annotation_fields) ==
    AddProjectLookupData(lookup_ht, annotation_fields)

\* ont_snv_indel.py:21-22
OntAddProjectLookupData(lookup_ht, annotation_fields) ==
    [raised |-> Some(HTTPBadRequest), annotation_fields |-> annotation_fields,
     read_table |-> FALSE, project_samples |-> Missing]

\* ont_snv_indel.py:18-19
OntGetLoadedFilterHt(filter_dict, key, table, pathogenicity) ==
    [filter_hts |-> filter_dict, result |-> NoneValue,
     evaluated |-> <<>>, read |-> FALSE, raised |-> FALSE]

\* the lookup tables an ONT lookup would find: none, or one with the first
\* family of each of its project keys holding a non-reference call
OntLookupHts ==
    {Missing} \cup
    {Some(LookupHt(keys, keys \X {0}, FALSE)) :
        keys \in {ks \in SUBSET ProjectKeys : Cardinality(ks) <= MaxLookupKeys}}

\* a constructed ONT query (the cache empty, nothing read), the tables it
\* would find and the request
OntInit ==
    /\ pc = "query"
    /\ ht = NoRow
    /\ UnusedByQuality
    /\ filter_hts = <<>>
    /\ clinvar_path_variants \in {Missing} \cup {Some(rows) : rows \in ClinvarTables}
    /\ n_get_filters = 0
    /\ n_read_table = 0
    /\ n_calls = 0
    /\ call = NoCall
    /\ request \in [lookup_ht : OntLookupHts,
                    annotation_fields : SUBSET GivenAnnotationFields,
                    pathogenicity : Pathogenicities]

\* self._get_loaded_clinvar_prefilter_ht(pathogenicity) on an ONT query:
\* mito.py:408-410 calls the overridden _get_loaded_filter_ht
CallOntGetLoadedFilterHt ==
    /\ pc = "query"
    /\ n_calls < MaxCalls
    /\ LET r == OntGetLoadedFilterHt(filter_hts, CLINVAR_KEY, clinvar_path_variants,
                                     request.pathogenicity)
       IN /\ filter_hts' = r.filter_hts
          /\ n_get_filters' = n_get_filters + Len(r.evaluated)
          /\ n_read_table' = n_read_table + (IF r.read THEN 1 ELSE 0)
          /\ call' = [op |-> "ont_get_loaded_filter_ht",
                      pathogenicity |-> request.pathogenicity,
                      evaluated |-> r.evaluated, results |-> <<r.result>>,
                      before |-> filter_hts]
          /\ pc' = "returned"
    /\ n_calls' = n_calls + 1
    /\ UNCHANGED <<ht, clinvar_path_variants, request, merge_vars>>

\* self._add_project_lookup_data(ht, annotation_fields, ...) on an ONT query
CallOntAddProjectLookupData ==
    /\ pc = "query"
    /\ n_calls < MaxCalls
    /\ LET r == OntAddProjectLookupData(request.lookup_ht, request.annotation_fields)
       IN /\ call' = [op |-> "ont_add_project_lookup_data", raised |-> r.raised,
                      annotation_fields |-> r.annotation_fields,
                      read_table |-> r.read_table, project_samples |-> r.project_samples]
          /\ n_read_table' = n_read_table + (IF r.read_table THEN 1 ELSE 0)
          /\ pc' = IF IsDefined(r.raised) THEN "raised" ELSE "done"
    /\ n_calls' = n_calls + 1
    /\ UNCHANGED <<ht, filter_hts, clinvar_path_variants, request, n_get_filters, merge_vars>>

OntNext ==
    \/ CallOntGetLoadedFilterHt
    \/ CallOntAddProjectLookupData
    \/ Return

SpecOnt == OntInit /\ [][OntNext]_vars

----------------------------------------------------------------------------
(* Vocabulary of the property of the ONT data type *)

OntLookedUp == call.op = "ont_add_project_lookup_data"
OntFilterHtAsked == call.op = "ont_get_loaded_filter_ht"

(* C22: on the ONT data type a variant lookup is rejected with a bad       *)
(* request, which is not the not-found condition, with no table read and   *)
(* the annotation fields as they were given; _get_loaded_filter_ht returns *)
(* no table; and at every moment of the query no prefilter has been        *)
(* evaluated, read or stored in the cache.                                 *)
C22_OntLookupRejectedNoPrefilter ==
    /\ OntLookedUp =>
         /\ call.raised = Some(HTTPBadRequest)
         /\ call.raised # Some(HTTPNotFound)
         /\ ~call.read_table
         /\ call.annotation_fields = request.annotation_fields
         /\ ~IsDefined(call.project_samples)
    /\ OntFilterHtAsked => call.results = <<NoneValue>>
    /\ filter_hts = <<>>
    /\ n_read_table = 0
    /\ n_get_filters = 0

\* a lookup rejected although the lookup table holds a family with a
\* non-reference call, after the prefilter was asked for with pathogenic
\* terms requested and the reference table there to read
C22_Witness ==
    /\ OntLookedUp
    /\ n_calls = 2
    /\ IsDefined(request.lookup_ht)
    /\ DOMAIN VariantProjects(Val(request.lookup_ht)) # {}
    /\ IsDefined(request.pathogenicity)
    /\ CLINVAR_PATH_FILTER \in Val(request.pathogenicity)
    /\ IsDefined(clinvar_path_variants)
    /\ Val(clinvar_path_variants) # {}

----------------------------------------------------------------------------
(* Vocabulary of the keep condition of _apply_filters *)

\* the verdict counted for a family's entries of sample type t: the sample
\* type's own, or the other sample type's when the family has an index there
EitherPassesQuality(g, t) ==
    PassesQuality(g, t) \/ (HasIndex(g, Other(t)) /\ PassesQuality(g, Other(t)))
EitherPassesInheritance(g, t) ==
    PassesInheritance(g, t) \/ (HasIndex(g, Other(t)) /\ PassesInheritance(g, Other(t)))

(* C24: after _apply_filters a family's entries of one sample type are     *)
(* kept if and only if the sample type passes quality or the family has an *)
(* index in the other sample type and the other passes quality, and the    *)
(* sample type passes inheritance or the family has an index in the other  *)
(* sample type and the other passes inheritance; the two disjunctions are  *)
(* decided separately, so the two passes may come from different sample    *)
(* types.                                                                  *)
C24_KeptIffEitherQualityAndEitherInheritance ==
    pc = "merged" =>
        \A g \in FamilyGuids, t \in SampleTypes :
            IsDefined(RowEntries(g, t)) =>
                (Kept(g, t) <=> EitherPassesQuality(g, t) /\ EitherPassesInheritance(g, t))

\* one family kept on the other sample type's quality pass and its own
\* inheritance pass, and one dropped although quality passed in both sample
\* types
C24_Witness ==
    /\ pc = "merged"
    /\ \E g \in FamilyGuids, t \in SampleTypes :
         /\ Kept(g, t)
         /\ ~PassesQuality(g, t) /\ PassesQuality(g, Other(t))
         /\ PassesInheritance(g, t) /\ ~PassesInheritance(g, Other(t))
    /\ \E g \in FamilyGuids, t \in SampleTypes :
         /\ IsDefined(RowEntries(g, t))
         /\ ~Kept(g, t)
         /\ PassesQuality(g, t) /\ PassesQuality(g, Other(t))

----------------------------------------------------------------------------
(* The both-sample-types flag of a query instance, mito.py:120-142,        *)
(* 274-285, 332-338 and 377-379                                            *)

AttributeError == "AttributeError"

\* MitoHailTableQuery(...): the attributes set by the constructor.  The
\* class body defines __init__ twice, at mito.py:120-123 (which sets
\* self._has_both_sample_types = False) and at mito.py:377-379 (which sets
\* self._filter_hts = {}); the later definition is the one bound to the
\* class, so the flag is left unset.
Construct == [filter_hts |-> <<>>, has_both_sample_types |-> Missing]

\* project_samples of the search: the sample types each project has samples of
AnyProjectSamples == [Projects -> (SUBSET SampleTypes) \ {{}}]

\* mito.py:128-132 and 277-283: with one sample type the parent's method is
\* used and the flag is left as it is; otherwise the flag is set
SetHasBothSampleTypes(flag, sample_types) ==
    IF Cardinality(sample_types) = 1
    THEN [has_both_sample_types |-> flag, delegated |-> "super"]
    ELSE [has_both_sample_types |-> Some(TRUE), delegated |-> "both_sample_types"]

\* _import_and_filter_entries_ht: sample_types = set(project_sample_type_data.keys())
ImportAndFilterEntriesHt(flag, project_sample_type_data) ==
    SetHasBothSampleTypes(flag, project_sample_type_data)

\* _import_and_filter_multiple_project_hts: sample_types is the union of the
\* keys of project_samples.values()
ImportAndFilterMultipleProjectHts(flag, project_samples) ==
    SetHasBothSampleTypes(flag, UNION {project_samples[p] : p \in DOMAIN project_samples})

\* _get_sample_genotype, mito.py:332-338: reading an attribute that was never
\* set raises AttributeError
GetSampleGenotype(flag) ==
    IF ~IsDefined(flag) THEN [raised |-> Some(AttributeError), delegated |-> Missing]
    ELSE IF ~Val(flag) THEN [raised |-> Missing, delegated |-> Some("super")]
    ELSE [raised |-> Missing, delegated |-> Some("select_genotype_for_sample")]

\* a constructed instance and the search it serves
InstanceInit ==
    /\ pc = "query"
    /\ ht = NoRow
    /\ sorted_wes_family_sample_data = <<>>
    /\ sorted_wgs_family_sample_data = <<>>
    /\ family_idx_map = <<>>
    /\ merged = NoMerged
    /\ has_both_sample_types = Construct.has_both_sample_types
    /\ filter_hts = Construct.filter_hts
    /\ clinvar_path_variants = Missing
    /\ n_get_filters = 0
    /\ n_read_table = 0
    /\ n_calls = 0
    /\ call = NoCall
    /\ request \in [project_samples : AnyProjectSamples]

\* a search of one project
CallImportAndFilterEntriesHt ==
    /\ pc = "query"
    /\ n_calls < MaxCalls
    /\ \E project_guid \in Projects :
         LET r == ImportAndFilterEntriesHt(has_both_sample_types,
                                           request.project_samples[project_guid])
         IN /\ has_both_sample_types' = r.has_both_sample_types
            /\ call' = [op |-> "import_and_filter_entries_ht",
                        project_guids |-> {project_guid},
                        sample_types |-> request.project_samples[project_guid],
                        before |-> has_both_sample_types,
                        raised |-> Missing, results |-> <<r.delegated>>]
    /\ n_calls' = n_calls + 1
    /\ UNCHANGED <<pc, ht, request, sorted_wes_family_sample_data,
                   sorted_wgs_family_sample_data, family_idx_map, merged, quality_filter_vars>>

\* a search of several projects
CallImportAndFilterMultipleProjectHts ==
    /\ pc = "query"
    /\ n_calls < MaxCalls
    /\ LET r == ImportAndFilterMultipleProjectHts(has_both_sample_types,
                                                  request.project_samples)
       IN /\ has_both_sample_types' = r.has_both_sample_types
          /\ call' = [op |-> "import_and_filter_multiple_project_hts",
                      project_guids |-> Projects,
                      sample_types |-> UNION {request.project_samples[p] : p \in Projects},
                      before |-> has_both_sample_types,
                      raised |-> Missing, results |-> <<r.delegated>>]
    /\ n_calls' = n_calls + 1
    /\ UNCHANGED <<pc, ht, request, sorted_wes_family_sample_data,
                   sorted_wgs_family_sample_data, family_idx_map, merged, quality_filter_vars>>

\* the genotypes of a family's samples are formatted
CallGetSampleGenotype ==
    /\ pc = "query"
    /\ n_calls < MaxCalls
    /\ LET r == GetSampleGenotype(has_both_sample_types)
       IN /\ call' = [op |-> "get_sample_genotype", project_guids |-> {},
                      sample_types |-> {},
                      before |-> has_both_sample_types, raised |-> r.raised,
                      results |-> IF IsDefined(r.delegated) THEN <<Val(r.delegated)>> ELSE <<>>]
          /\ pc' = IF IsDefined(r.raised) THEN "raised" ELSE "query"
    /\ n_calls' = n_calls + 1
    /\ UNCHANGED <<ht, request, has_both_sample_types, sorted_wes_family_sample_data,
                   sorted_wgs_family_sample_data, family_idx_map, merged, quality_filter_vars>>

InstanceNext ==
    \/ CallImportAndFilterEntriesHt
    \/ CallImportAndFilterMultipleProjectHts
    \/ CallGetSampleGenotype

SpecInstance == InstanceInit /\ [][InstanceNext]_vars

----------------------------------------------------------------------------
(* Vocabulary of the property of the both-sample-types flag *)

FlagIsTrue == has_both_sample_types = Some(TRUE)
Imported == call.op \in {"import_and_filter_entries_ht", "import_and_filter_multiple_project_hts"}
GenotypeAsked == call.op = "get_sample_genotype"

\* the flag becomes true only in an import that sees more than one sample
\* type, and once true it stays true
FlagSetOnlyByBothSampleTypes ==
    /\ (Imported /\ call.before # Some(TRUE) /\ FlagIsTrue) => Cardinality(call.sample_types) > 1
    /\ (~Imported /\ call.op # "none") => has_both_sample_types = call.before
    /\ (call.op # "none" /\ call.before = Some(TRUE)) => FlagIsTrue

(* C25: on every instance the both-sample-types flag is defined, and false *)
(* from construction, when the filter-table cache is empty; it becomes     *)
(* true only when one of the two import methods sees more than one sample  *)
(* type and is never reset; and _get_sample_genotype called while only     *)
(* single-sample-type loads have happened delegates to the parent class.   *)
C25_FlagDefinedAndFalseFromConstruction ==
    /\ IsDefined(has_both_sample_types)
    /\ n_calls = 0 => has_both_sample_types = Some(FALSE) /\ filter_hts = <<>>
    /\ FlagSetOnlyByBothSampleTypes
    /\ (GenotypeAsked /\ call.before # Some(TRUE)) =>
          ~IsDefined(call.raised) /\ call.results = <<"super">>

----------------------------------------------------------------------------
(* Consequence filtering, _get_allowed_consequence_ids and                 *)
(* _get_allowed_transcripts_filter, mito.py:457-487                        *)

\* the consequence terms of the enum and their ids (positions in the enum)
ConsequenceTerms == 1..MaxConsequences
ConsequenceId(term) == term - 1
ConsequenceIds == {ConsequenceId(term) : term \in ConsequenceTerms}

\* a requested consequence: the name of a term, with or without the
\* '__canonical' suffix
RequestedConsequences == [term : ConsequenceTerms, canonical_suffix : BOOLEAN]
\* c.endswith('__canonical') and c.replace('__canonical', '')
EndsWithCanonical(c) == c.canonical_suffix
ReplaceCanonical(c) == [c EXCEPT !.canonical_suffix = FALSE]

\* annotations: the requested consequences by annotation group
AnnotationGroups == {"missense", "other"}
Annotations == [AnnotationGroups -> SUBSET RequestedConsequences]

\* an allowed consequence id: the integer id, or the string f'{cid}__canonical'
AnyId(cid) == [cid |-> cid, canonical_suffix |-> FALSE]
CanonicalId(cid) == [cid |-> cid, canonical_suffix |-> TRUE]

\* super()._get_allowed_consequence_ids(annotations): the enum ids of the
\* requested names that are terms of the enum; a suffixed name is none
BaseGetAllowedConsequenceIds(annotations) ==
    {AnyId(ConsequenceId(c.term)) :
        c \in {r \in UNION {annotations[k] : k \in DOMAIN annotations} : ~EndsWithCanonical(r)}}

\* mito.py:457-467
GetAllowedConsequenceIds(annotations) ==
    LET consequence_ids == BaseGetAllowedConsequenceIds(annotations)
        canonical_consequences ==
            {ReplaceCanonical(c) :
                c \in {r \in UNION {annotations[k] : k \in DOMAIN annotations} :
                          EndsWithCanonical(r)}}
    IN IF canonical_consequences # {}
       THEN LET canonical_consequence_ids ==
                    BaseGetAllowedConsequenceIds([canonical |-> canonical_consequences])
                        \ consequence_ids
            IN consequence_ids \cup {CanonicalId(c.cid) : c \in canonical_consequence_ids}
       ELSE consequence_ids

\* the filter accepts on the any-transcript ids and the canonical-only ids
\* alike, whatever the transcript
AllowedTranscriptsFilterAnyTranscript(allowed_consequence_ids, tc) ==
    \E id \in tc.consequence_term_ids :
        id \in {c.cid : c \in allowed_consequence_ids}

\* mito.py:469-487: the predicate returned by _get_allowed_transcripts_filter,
\* applied to a transcript tc
AllowedTranscriptsFilter(allowed_consequence_ids, tc) ==
    LET canonical_consequences ==
            {c.cid : c \in {a \in allowed_consequence_ids : a.canonical_suffix}}
        any_consequences ==
            {c.cid : c \in {a \in allowed_consequence_ids : ~a.canonical_suffix}}
        all_consequence_ids == canonical_consequences \cup any_consequences
        allowed == IF any_consequences # {} THEN any_consequences ELSE {}
        contains == IF canonical_consequences # {}
                    THEN IF IsDefined(tc.canonical) THEN all_consequence_ids ELSE allowed
                    ELSE allowed
    IN \E id \in tc.consequence_term_ids : id \in contains

\* a transcript: its consequence term ids and whether it is canonical
ConsequenceTranscripts ==
    [consequence_term_ids : SUBSET ConsequenceIds, canonical : {Missing, Some(1)}]

ConsequenceInit ==
    /\ pc = "args"
    /\ UnusedByFunctions
    /\ call = NoCall
    /\ request \in [annotations : Annotations, tc : ConsequenceTranscripts]

CallGetAllowedConsequenceIds ==
    /\ pc = "args"
    /\ call' = [op |-> "get_allowed_consequence_ids",
                allowed_consequence_ids |-> GetAllowedConsequenceIds(request.annotations),
                results |-> <<>>]
    /\ pc' = "ids"
    /\ UNCHANGED <<request, unused_by_functions>>

CallGetAllowedTranscriptsFilter ==
    /\ pc = "ids"
    /\ call' = [call EXCEPT !.op = "get_allowed_transcripts_filter",
                            !.results = <<AllowedTranscriptsFilter(
                                            call.allowed_consequence_ids, request.tc)>>]
    /\ pc' = "done"
    /\ UNCHANGED <<request, unused_by_functions>>

ConsequenceNext ==
    \/ CallGetAllowedConsequenceIds
    \/ CallGetAllowedTranscriptsFilter

SpecConsequence == ConsequenceInit /\ [][ConsequenceNext]_vars

----------------------------------------------------------------------------
(* Vocabulary of the property of the consequence filter *)

ConsequenceRequested(term, suffixed) ==
    \E k \in AnnotationGroups :
        [term |-> term, canonical_suffix |-> suffixed] \in request.annotations[k]
\* the ids of the terms requested without the suffix (also when requested
\* with it as well), and of those requested with the suffix only
AnySet == {ConsequenceId(term) : term \in {x \in ConsequenceTerms : ConsequenceRequested(x, FALSE)}}
CanonicalOnlySet ==
    {ConsequenceId(term) :
        term \in {x \in ConsequenceTerms : ConsequenceRequested(x, TRUE) /\ ~ConsequenceRequested(x, FALSE)}}
TranscriptIsCanonical == IsDefined(request.tc.canonical)
Carries(ids) == request.tc.consequence_term_ids \cap ids # {}
TranscriptAccepted == call.results[1]

(* C26: the filter built from the allowed consequence ids accepts a        *)
(* transcript if and only if one of its consequence ids is the id of a     *)
(* term requested without the __canonical suffix (whether or not it was    *)
(* also requested with it), or the transcript is canonical and one of its  *)
(* consequence ids is the id of a term requested with the suffix only.     *)
C26_AnyOrCanonicalOnly ==
    pc = "done" =>
        (TranscriptAccepted <=>
            Carries(AnySet) \/ (TranscriptIsCanonical /\ Carries(CanonicalOnlySet)))

\* a term requested both ways and another with the suffix only: a transcript
\* that is not canonical and carries only the second is refused
C26_Witness ==
    /\ pc = "done"
    /\ \E x \in ConsequenceTerms : ConsequenceRequested(x, TRUE) /\ ConsequenceRequested(x, FALSE)
    /\ CanonicalOnlySet # {}
    /\ ~TranscriptIsCanonical
    /\ Carries(CanonicalOnlySet)
    /\ ~Carries(AnySet)
    /\ ~TranscriptAccepted

====
